---- MODULE Spec2Model ----
(***************************************************************************)
(* Model of the URL featurization pipeline: util.py (flatten,              *)
(* word_splitter), url_tokenizer.py (decoder, structural splitter, zone    *)
(* tokenizers, acronym expander) and featurizer.py (UrlFeaturizer).        *)
(*                                                                         *)
(* A Python str is a sequence of one-character strings, a list or tuple is *)
(* a sequence, an embedding vector is a tuple of integers and a matrix is  *)
(* a sequence of such rows.                                                *)
(***************************************************************************)
EXTENDS Integers, Sequences, FiniteSets, TLC

\* ------------------------------------------------------------------------
\* Characters and strings
\* ------------------------------------------------------------------------

LowerSeq ==
  <<"a", "b", "c", "d", "e", "f", "g", "h", "i", "j", "k", "l", "m",
    "n", "o", "p", "q", "r", "s", "t", "u", "v", "w", "x", "y", "z">>

UpperSeq ==
  <<"A", "B", "C", "D", "E", "F", "G", "H", "I", "J", "K", "L", "M",
    "N", "O", "P", "Q", "R", "S", "T", "U", "V", "W", "X", "Y", "Z">>

LowerChars == {LowerSeq[i] : i \in 1..26}

UpperChars == {UpperSeq[i] : i \in 1..26}

DigitChars == {"0", "1", "2", "3", "4", "5", "6", "7", "8", "9"}

AlnumChars == LowerChars \cup UpperChars \cup DigitChars

\* A character outside ASCII that is neither a letter nor a digit of any
\* kind, such as U+20AC or U+FFFD
OtherChar == "U+"

\* The ASCII characters in the order of their codes 0..127; a control
\* character without an escape of its own, and the grave accent, are
\* written by their codes
AsciiSeq ==
  <<"\\x00", "\\x01", "\\x02", "\\x03", "\\x04", "\\x05", "\\x06", "\\x07",
    "\\x08", "\t", "\n", "\\x0b", "\f", "\r", "\\x0e", "\\x0f", "\\x10",
    "\\x11", "\\x12", "\\x13", "\\x14", "\\x15", "\\x16", "\\x17", "\\x18",
    "\\x19", "\\x1a", "\\x1b", "\\x1c", "\\x1d", "\\x1e", "\\x1f", " ", "!",
    "\"", "#", "$", "%", "&", "'", "(", ")", "*", "+", ",", "-", ".", "/",
    "0", "1", "2", "3", "4", "5", "6", "7", "8", "9", ":", ";", "<", "=",
    ">", "?", "@", "A", "B", "C", "D", "E", "F", "G", "H", "I", "J", "K",
    "L", "M", "N", "O", "P", "Q", "R", "S", "T", "U", "V", "W", "X", "Y",
    "Z", "[", "\\", "]", "^", "_", "\\x60", "a", "b", "c", "d", "e", "f", "g",
    "h", "i", "j", "k", "l", "m", "n", "o", "p", "q", "r", "s", "t", "u",
    "v", "w", "x", "y", "z", "{", "|", "}", "~", "\\x7f">>

AsciiChars == {AsciiSeq[i] : i \in 1..128}

\* The characters outside ASCII, in classes by what the program can tell of
\* a character: whether \w of a regular expression matches it, whether
\* str.isupper() and str.isdigit() hold of it, whether \d matches it, and
\* what str.lower() makes of it.  Every character outside ASCII is written
\* as the token of its class; a class is named after one of its members.
NonAsciiClasses ==
  << [token |-> "U+", word |-> FALSE, upper |-> FALSE, digit |-> FALSE,
      decimal |-> FALSE, lower |-> <<"U+">>],
     [token |-> "U+00E9", word |-> TRUE, upper |-> FALSE, digit |-> FALSE,
      decimal |-> FALSE, lower |-> <<"U+00E9">>],
     [token |-> "U+00C9", word |-> TRUE, upper |-> TRUE, digit |-> FALSE,
      decimal |-> FALSE, lower |-> <<"U+00E9">>],
     [token |-> "U+0660", word |-> TRUE, upper |-> FALSE, digit |-> TRUE,
      decimal |-> TRUE, lower |-> <<"U+0660">>],
     [token |-> "U+03D2", word |-> TRUE, upper |-> TRUE, digit |-> FALSE,
      decimal |-> FALSE, lower |-> <<"U+03D2">>],
     [token |-> "U+00B2", word |-> TRUE, upper |-> FALSE, digit |-> TRUE,
      decimal |-> FALSE, lower |-> <<"U+00B2">>],
     [token |-> "U+1F130", word |-> FALSE, upper |-> TRUE, digit |-> FALSE,
      decimal |-> FALSE, lower |-> <<"U+1F130">>],
     [token |-> "U+01C5", word |-> TRUE, upper |-> FALSE, digit |-> FALSE,
      decimal |-> FALSE, lower |-> <<"U+00E9">>],
     [token |-> "U+24B6", word |-> FALSE, upper |-> TRUE, digit |-> FALSE,
      decimal |-> FALSE, lower |-> <<"U+">>],
     [token |-> "U+0130", word |-> TRUE, upper |-> TRUE, digit |-> FALSE,
      decimal |-> FALSE, lower |-> <<"i", "U+">>],
     [token |-> "U+212A", word |-> TRUE, upper |-> TRUE, digit |-> FALSE,
      decimal |-> FALSE, lower |-> <<"k">>] >>

\* The code points above 127 of the classes other than the first, as the
\* runs of consecutive code points (first, last, token of the class)
CodePointRanges ==
  << <<170, 170, "U+00E9">>, <<178, 179, "U+00B2">>, <<181, 181, "U+00E9">>,
     <<185, 185, "U+00B2">>, <<186, 186, "U+00E9">>, <<188, 190, "U+00E9">>,
     <<192, 214, "U+00C9">>, <<216, 222, "U+00C9">>, <<223, 246, "U+00E9">>,
     <<248, 255, "U+00E9">>, <<256, 256, "U+00C9">>, <<257, 257, "U+00E9">>,
     <<258, 258, "U+00C9">>, <<259, 259, "U+00E9">>, <<260, 260, "U+00C9">>,
     <<261, 261, "U+00E9">>, <<262, 262, "U+00C9">>, <<263, 263, "U+00E9">>,
     <<264, 264, "U+00C9">>, <<265, 265, "U+00E9">>, <<266, 266, "U+00C9">>,
     <<267, 267, "U+00E9">>, <<268, 268, "U+00C9">>, <<269, 269, "U+00E9">>,
     <<270, 270, "U+00C9">>, <<271, 271, "U+00E9">>, <<272, 272, "U+00C9">>,
     <<273, 273, "U+00E9">>, <<274, 274, "U+00C9">>, <<275, 275, "U+00E9">>,
     <<276, 276, "U+00C9">>, <<277, 277, "U+00E9">>, <<278, 278, "U+00C9">>,
     <<279, 279, "U+00E9">>, <<280, 280, "U+00C9">>, <<281, 281, "U+00E9">>,
     <<282, 282, "U+00C9">>, <<283, 283, "U+00E9">>, <<284, 284, "U+00C9">>,
     <<285, 285, "U+00E9">>, <<286, 286, "U+00C9">>, <<287, 287, "U+00E9">>,
     <<288, 288, "U+00C9">>, <<289, 289, "U+00E9">>, <<290, 290, "U+00C9">>,
     <<291, 291, "U+00E9">>, <<292, 292, "U+00C9">>, <<293, 293, "U+00E9">>,
     <<294, 294, "U+00C9">>, <<295, 295, "U+00E9">>, <<296, 296, "U+00C9">>,
     <<297, 297, "U+00E9">>, <<298, 298, "U+00C9">>, <<299, 299, "U+00E9">>,
     <<300, 300, "U+00C9">>, <<301, 301, "U+00E9">>, <<302, 302, "U+00C9">>,
     <<303, 303, "U+00E9">>, <<304, 304, "U+0130">>, <<305, 305, "U+00E9">>,
     <<306, 306, "U+00C9">>, <<307, 307, "U+00E9">>, <<308, 308, "U+00C9">>,
     <<309, 309, "U+00E9">>, <<310, 310, "U+00C9">>, <<311, 312, "U+00E9">>,
     <<313, 313, "U+00C9">>, <<314, 314, "U+00E9">>, <<315, 315, "U+00C9">>,
     <<316, 316, "U+00E9">>, <<317, 317, "U+00C9">>, <<318, 318, "U+00E9">>,
     <<319, 319, "U+00C9">>, <<320, 320, "U+00E9">>, <<321, 321, "U+00C9">>,
     <<322, 322, "U+00E9">>, <<323, 323, "U+00C9">>, <<324, 324, "U+00E9">>,
     <<325, 325, "U+00C9">>, <<326, 326, "U+00E9">>, <<327, 327, "U+00C9">>,
     <<328, 329, "U+00E9">>, <<330, 330, "U+00C9">>, <<331, 331, "U+00E9">>,
     <<332, 332, "U+00C9">>, <<333, 333, "U+00E9">>, <<334, 334, "U+00C9">>,
     <<335, 335, "U+00E9">>, <<336, 336, "U+00C9">>, <<337, 337, "U+00E9">>,
     <<338, 338, "U+00C9">>, <<339, 339, "U+00E9">>, <<340, 340, "U+00C9">>,
     <<341, 341, "U+00E9">>, <<342, 342, "U+00C9">>, <<343, 343, "U+00E9">>,
     <<344, 344, "U+00C9">>, <<345, 345, "U+00E9">>, <<346, 346, "U+00C9">>,
     <<347, 347, "U+00E9">>, <<348, 348, "U+00C9">>, <<349, 349, "U+00E9">>,
     <<350, 350, "U+00C9">>, <<351, 351, "U+00E9">>, <<352, 352, "U+00C9">>,
     <<353, 353, "U+00E9">>, <<354, 354, "U+00C9">>, <<355, 355, "U+00E9">>,
     <<356, 356, "U+00C9">>, <<357, 357, "U+00E9">>, <<358, 358, "U+00C9">>,
     <<359, 359, "U+00E9">>, <<360, 360, "U+00C9">>, <<361, 361, "U+00E9">>,
     <<362, 362, "U+00C9">>, <<363, 363, "U+00E9">>, <<364, 364, "U+00C9">>,
     <<365, 365, "U+00E9">>, <<366, 366, "U+00C9">>, <<367, 367, "U+00E9">>,
     <<368, 368, "U+00C9">>, <<369, 369, "U+00E9">>, <<370, 370, "U+00C9">>,
     <<371, 371, "U+00E9">>, <<372, 372, "U+00C9">>, <<373, 373, "U+00E9">>,
     <<374, 374, "U+00C9">>, <<375, 375, "U+00E9">>, <<376, 377, "U+00C9">>,
     <<378, 378, "U+00E9">>, <<379, 379, "U+00C9">>, <<380, 380, "U+00E9">>,
     <<381, 381, "U+00C9">>, <<382, 384, "U+00E9">>, <<385, 386, "U+00C9">>,
     <<387, 387, "U+00E9">>, <<388, 388, "U+00C9">>, <<389, 389, "U+00E9">>,
     <<390, 391, "U+00C9">>, <<392, 392, "U+00E9">>, <<393, 395, "U+00C9">>,
     <<396, 397, "U+00E9">>, <<398, 401, "U+00C9">>, <<402, 402, "U+00E9">>,
     <<403, 404, "U+00C9">>, <<405, 405, "U+00E9">>, <<406, 408, "U+00C9">>,
     <<409, 411, "U+00E9">>, <<412, 413, "U+00C9">>, <<414, 414, "U+00E9">>,
     <<415, 416, "U+00C9">>, <<417, 417, "U+00E9">>, <<418, 418, "U+00C9">>,
     <<419, 419, "U+00E9">>, <<420, 420, "U+00C9">>, <<421, 421, "U+00E9">>,
     <<422, 423, "U+00C9">>, <<424, 424, "U+00E9">>, <<425, 425, "U+00C9">>,
     <<426, 427, "U+00E9">>, <<428, 428, "U+00C9">>, <<429, 429, "U+00E9">>,
     <<430, 431, "U+00C9">>, <<432, 432, "U+00E9">>, <<433, 435, "U+00C9">>,
     <<436, 436, "U+00E9">>, <<437, 437, "U+00C9">>, <<438, 438, "U+00E9">>,
     <<439, 440, "U+00C9">>, <<441, 443, "U+00E9">>, <<444, 444, "U+00C9">>,
     <<445, 451, "U+00E9">>, <<452, 452, "U+00C9">>, <<453, 453, "U+01C5">>,
     <<454, 454, "U+00E9">>, <<455, 455, "U+00C9">>, <<456, 456, "U+01C5">>,
     <<457, 457, "U+00E9">>, <<458, 458, "U+00C9">>, <<459, 459, "U+01C5">>,
     <<460, 460, "U+00E9">>, <<461, 461, "U+00C9">>, <<462, 462, "U+00E9">>,
     <<463, 463, "U+00C9">>, <<464, 464, "U+00E9">>, <<465, 465, "U+00C9">>,
     <<466, 466, "U+00E9">>, <<467, 467, "U+00C9">>, <<468, 468, "U+00E9">>,
     <<469, 469, "U+00C9">>, <<470, 470, "U+00E9">>, <<471, 471, "U+00C9">>,
     <<472, 472, "U+00E9">>, <<473, 473, "U+00C9">>, <<474, 474, "U+00E9">>,
     <<475, 475, "U+00C9">>, <<476, 477, "U+00E9">>, <<478, 478, "U+00C9">>,
     <<479, 479, "U+00E9">>, <<480, 480, "U+00C9">>, <<481, 481, "U+00E9">>,
     <<482, 482, "U+00C9">>, <<483, 483, "U+00E9">>, <<484, 484, "U+00C9">>,
     <<485, 485, "U+00E9">>, <<486, 486, "U+00C9">>, <<487, 487, "U+00E9">>,
     <<488, 488, "U+00C9">>, <<489, 489, "U+00E9">>, <<490, 490, "U+00C9">>,
     <<491, 491, "U+00E9">>, <<492, 492, "U+00C9">>, <<493, 493, "U+00E9">>,
     <<494, 494, "U+00C9">>, <<495, 496, "U+00E9">>, <<497, 497, "U+00C9">>,
     <<498, 498, "U+01C5">>, <<499, 499, "U+00E9">>, <<500, 500, "U+00C9">>,
     <<501, 501, "U+00E9">>, <<502, 504, "U+00C9">>, <<505, 505, "U+00E9">>,
     <<506, 506, "U+00C9">>, <<507, 507, "U+00E9">>, <<508, 508, "U+00C9">>,
     <<509, 509, "U+00E9">>, <<510, 510, "U+00C9">>, <<511, 511, "U+00E9">>,
     <<512, 512, "U+00C9">>, <<513, 513, "U+00E9">>, <<514, 514, "U+00C9">>,
     <<515, 515, "U+00E9">>, <<516, 516, "U+00C9">>, <<517, 517, "U+00E9">>,
     <<518, 518, "U+00C9">>, <<519, 519, "U+00E9">>, <<520, 520, "U+00C9">>,
     <<521, 521, "U+00E9">>, <<522, 522, "U+00C9">>, <<523, 523, "U+00E9">>,
     <<524, 524, "U+00C9">>, <<525, 525, "U+00E9">>, <<526, 526, "U+00C9">>,
     <<527, 527, "U+00E9">>, <<528, 528, "U+00C9">>, <<529, 529, "U+00E9">>,
     <<530, 530, "U+00C9">>, <<531, 531, "U+00E9">>, <<532, 532, "U+00C9">>,
     <<533, 533, "U+00E9">>, <<534, 534, "U+00C9">>, <<535, 535, "U+00E9">>,
     <<536, 536, "U+00C9">>, <<537, 537, "U+00E9">>, <<538, 538, "U+00C9">>,
     <<539, 539, "U+00E9">>, <<540, 540, "U+00C9">>, <<541, 541, "U+00E9">>,
     <<542, 542, "U+00C9">>, <<543, 543, "U+00E9">>, <<544, 544, "U+00C9">>,
     <<545, 545, "U+00E9">>, <<546, 546, "U+00C9">>, <<547, 547, "U+00E9">>,
     <<548, 548, "U+00C9">>, <<549, 549, "U+00E9">>, <<550, 550, "U+00C9">>,
     <<551, 551, "U+00E9">>, <<552, 552, "U+00C9">>, <<553, 553, "U+00E9">>,
     <<554, 554, "U+00C9">>, <<555, 555, "U+00E9">>, <<556, 556, "U+00C9">>,
     <<557, 557, "U+00E9">>, <<558, 558, "U+00C9">>, <<559, 559, "U+00E9">>,
     <<560, 560, "U+00C9">>, <<561, 561, "U+00E9">>, <<562, 562, "U+00C9">>,
     <<563, 569, "U+00E9">>, <<570, 571, "U+00C9">>, <<572, 572, "U+00E9">>,
     <<573, 574, "U+00C9">>, <<575, 576, "U+00E9">>, <<577, 577, "U+00C9">>,
     <<578, 578, "U+00E9">>, <<579, 582, "U+00C9">>, <<583, 583, "U+00E9">>,
     <<584, 584, "U+00C9">>, <<585, 585, "U+00E9">>, <<586, 586, "U+00C9">>,
     <<587, 587, "U+00E9">>, <<588, 588, "U+00C9">>, <<589, 589, "U+00E9">>,
     <<590, 590, "U+00C9">>, <<591, 705, "U+00E9">>, <<710, 721, "U+00E9">>,
     <<736, 740, "U+00E9">>, <<748, 748, "U+00E9">>, <<750, 750, "U+00E9">>,
     <<880, 880, "U+00C9">>, <<881, 881, "U+00E9">>, <<882, 882, "U+00C9">>,
     <<883, 884, "U+00E9">>, <<886, 886, "U+00C9">>, <<887, 887, "U+00E9">>,
     <<890, 893, "U+00E9">>, <<895, 895, "U+00C9">>, <<902, 902, "U+00C9">>,
     <<904, 906, "U+00C9">>, <<908, 908, "U+00C9">>, <<910, 911, "U+00C9">>,
     <<912, 912, "U+00E9">>, <<913, 929, "U+00C9">>, <<931, 939, "U+00C9">>,
     <<940, 974, "U+00E9">>, <<975, 975, "U+00C9">>, <<976, 977, "U+00E9">>,
     <<978, 980, "U+03D2">>, <<981, 983, "U+00E9">>, <<984, 984, "U+00C9">>,
     <<985, 985, "U+00E9">>, <<986, 986, "U+00C9">>, <<987, 987, "U+00E9">>,
     <<988, 988, "U+00C9">>, <<989, 989, "U+00E9">>, <<990, 990, "U+00C9">>,
     <<991, 991, "U+00E9">>, <<992, 992, "U+00C9">>, <<993, 993, "U+00E9">>,
     <<994, 994, "U+00C9">>, <<995, 995, "U+00E9">>, <<996, 996, "U+00C9">>,
     <<997, 997, "U+00E9">>, <<998, 998, "U+00C9">>, <<999, 999, "U+00E9">>,
     <<1000, 1000, "U+00C9">>, <<1001, 1001, "U+00E9">>,
     <<1002, 1002, "U+00C9">>, <<1003, 1003, "U+00E9">>,
     <<1004, 1004, "U+00C9">>, <<1005, 1005, "U+00E9">>,
     <<1006, 1006, "U+00C9">>, <<1007, 1011, "U+00E9">>,
     <<1012, 1012, "U+00C9">>, <<1013, 1013, "U+00E9">>,
     <<1015, 1015, "U+00C9">>, <<1016, 1016, "U+00E9">>,
     <<1017, 1018, "U+00C9">>, <<1019, 1020, "U+00E9">>,
     <<1021, 1071, "U+00C9">>, <<1072, 1119, "U+00E9">>,
     <<1120, 1120, "U+00C9">>, <<1121, 1121, "U+00E9">>,
     <<1122, 1122, "U+00C9">>, <<1123, 1123, "U+00E9">>,
     <<1124, 1124, "U+00C9">>, <<1125, 1125, "U+00E9">>,
     <<1126, 1126, "U+00C9">>, <<1127, 1127, "U+00E9">>,
     <<1128, 1128, "U+00C9">>, <<1129, 1129, "U+00E9">>,
     <<1130, 1130, "U+00C9">>, <<1131, 1131, "U+00E9">>,
     <<1132, 1132, "U+00C9">>, <<1133, 1133, "U+00E9">>,
     <<1134, 1134, "U+00C9">>, <<1135, 1135, "U+00E9">>,
     <<1136, 1136, "U+00C9">>, <<1137, 1137, "U+00E9">>,
     <<1138, 1138, "U+00C9">>, <<1139, 1139, "U+00E9">>,
     <<1140, 1140, "U+00C9">>, <<1141, 1141, "U+00E9">>,
     <<1142, 1142, "U+00C9">>, <<1143, 1143, "U+00E9">>,
     <<1144, 1144, "U+00C9">>, <<1145, 1145, "U+00E9">>,
     <<1146, 1146, "U+00C9">>, <<1147, 1147, "U+00E9">>,
     <<1148, 1148, "U+00C9">>, <<1149, 1149, "U+00E9">>,
     <<1150, 1150, "U+00C9">>, <<1151, 1151, "U+00E9">>,
     <<1152, 1152, "U+00C9">>, <<1153, 1153, "U+00E9">>,
     <<1162, 1162, "U+00C9">>, <<1163, 1163, "U+00E9">>,
     <<1164, 1164, "U+00C9">>, <<1165, 1165, "U+00E9">>,
     <<1166, 1166, "U+00C9">>, <<1167, 1167, "U+00E9">>,
     <<1168, 1168, "U+00C9">>, <<1169, 1169, "U+00E9">>,
     <<1170, 1170, "U+00C9">>, <<1171, 1171, "U+00E9">>,
     <<1172, 1172, "U+00C9">>, <<1173, 1173, "U+00E9">>,
     <<1174, 1174, "U+00C9">>, <<1175, 1175, "U+00E9">>,
     <<1176, 1176, "U+00C9">>, <<1177, 1177, "U+00E9">>,
     <<1178, 1178, "U+00C9">>, <<1179, 1179, "U+00E9">>,
     <<1180, 1180, "U+00C9">>, <<1181, 1181, "U+00E9">>,
     <<1182, 1182, "U+00C9">>, <<1183, 1183, "U+00E9">>,
     <<1184, 1184, "U+00C9">>, <<1185, 1185, "U+00E9">>,
     <<1186, 1186, "U+00C9">>, <<1187, 1187, "U+00E9">>,
     <<1188, 1188, "U+00C9">>, <<1189, 1189, "U+00E9">>,
     <<1190, 1190, "U+00C9">>, <<1191, 1191, "U+00E9">>,
     <<1192, 1192, "U+00C9">>, <<1193, 1193, "U+00E9">>,
     <<1194, 1194, "U+00C9">>, <<1195, 1195, "U+00E9">>,
     <<1196, 1196, "U+00C9">>, <<1197, 1197, "U+00E9">>,
     <<1198, 1198, "U+00C9">>, <<1199, 1199, "U+00E9">>,
     <<1200, 1200, "U+00C9">>, <<1201, 1201, "U+00E9">>,
     <<1202, 1202, "U+00C9">>, <<1203, 1203, "U+00E9">>,
     <<1204, 1204, "U+00C9">>, <<1205, 1205, "U+00E9">>,
     <<1206, 1206, "U+00C9">>, <<1207, 1207, "U+00E9">>,
     <<1208, 1208, "U+00C9">>, <<1209, 1209, "U+00E9">>,
     <<1210, 1210, "U+00C9">>, <<1211, 1211, "U+00E9">>,
     <<1212, 1212, "U+00C9">>, <<1213, 1213, "U+00E9">>,
     <<1214, 1214, "U+00C9">>, <<1215, 1215, "U+00E9">>,
     <<1216, 1217, "U+00C9">>, <<1218, 1218, "U+00E9">>,
     <<1219, 1219, "U+00C9">>, <<1220, 1220, "U+00E9">>,
     <<1221, 1221, "U+00C9">>, <<1222, 1222, "U+00E9">>,
     <<1223, 1223, "U+00C9">>, <<1224, 1224, "U+00E9">>,
     <<1225, 1225, "U+00C9">>, <<1226, 1226, "U+00E9">>,
     <<1227, 1227, "U+00C9">>, <<1228, 1228, "U+00E9">>,
     <<1229, 1229, "U+00C9">>, <<1230, 1231, "U+00E9">>,
     <<1232, 1232, "U+00C9">>, <<1233, 1233, "U+00E9">>,
     <<1234, 1234, "U+00C9">>, <<1235, 1235, "U+00E9">>,
     <<1236, 1236, "U+00C9">>, <<1237, 1237, "U+00E9">>,
     <<1238, 1238, "U+00C9">>, <<1239, 1239, "U+00E9">>,
     <<1240, 1240, "U+00C9">>, <<1241, 1241, "U+00E9">>,
     <<1242, 1242, "U+00C9">>, <<1243, 1243, "U+00E9">>,
     <<1244, 1244, "U+00C9">>, <<1245, 1245, "U+00E9">>,
     <<1246, 1246, "U+00C9">>, <<1247, 1247, "U+00E9">>,
     <<1248, 1248, "U+00C9">>, <<1249, 1249, "U+00E9">>,
     <<1250, 1250, "U+00C9">>, <<1251, 1251, "U+00E9">>,
     <<1252, 1252, "U+00C9">>, <<1253, 1253, "U+00E9">>,
     <<1254, 1254, "U+00C9">>, <<1255, 1255, "U+00E9">>,
     <<1256, 1256, "U+00C9">>, <<1257, 1257, "U+00E9">>,
     <<1258, 1258, "U+00C9">>, <<1259, 1259, "U+00E9">>,
     <<1260, 1260, "U+00C9">>, <<1261, 1261, "U+00E9">>,
     <<1262, 1262, "U+00C9">>, <<1263, 1263, "U+00E9">>,
     <<1264, 1264, "U+00C9">>, <<1265, 1265, "U+00E9">>,
     <<1266, 1266, "U+00C9">>, <<1267, 1267, "U+00E9">>,
     <<1268, 1268, "U+00C9">>, <<1269, 1269, "U+00E9">>,
     <<1270, 1270, "U+00C9">>, <<1271, 1271, "U+00E9">>,
     <<1272, 1272, "U+00C9">>, <<1273, 1273, "U+00E9">>,
     <<1274, 1274, "U+00C9">>, <<1275, 1275, "U+00E9">>,
     <<1276, 1276, "U+00C9">>, <<1277, 1277, "U+00E9">>,
     <<1278, 1278, "U+00C9">>, <<1279, 1279, "U+00E9">>,
     <<1280, 1280, "U+00C9">>, <<1281, 1281, "U+00E9">>,
     <<1282, 1282, "U+00C9">>, <<1283, 1283, "U+00E9">>,
     <<1284, 1284, "U+00C9">>, <<1285, 1285, "U+00E9">>,
     <<1286, 1286, "U+00C9">>, <<1287, 1287, "U+00E9">>,
     <<1288, 1288, "U+00C9">>, <<1289, 1289, "U+00E9">>,
     <<1290, 1290, "U+00C9">>, <<1291, 1291, "U+00E9">>,
     <<1292, 1292, "U+00C9">>, <<1293, 1293, "U+00E9">>,
     <<1294, 1294, "U+00C9">>, <<1295, 1295, "U+00E9">>,
     <<1296, 1296, "U+00C9">>, <<1297, 1297, "U+00E9">>,
     <<1298, 1298, "U+00C9">>, <<1299, 1299, "U+00E9">>,
     <<1300, 1300, "U+00C9">>, <<1301, 1301, "U+00E9">>,
     <<1302, 1302, "U+00C9">>, <<1303, 1303, "U+00E9">>,
     <<1304, 1304, "U+00C9">>, <<1305, 1305, "U+00E9">>,
     <<1306, 1306, "U+00C9">>, <<1307, 1307, "U+00E9">>,
     <<1308, 1308, "U+00C9">>, <<1309, 1309, "U+00E9">>,
     <<1310, 1310, "U+00C9">>, <<1311, 1311, "U+00E9">>,
     <<1312, 1312, "U+00C9">>, <<1313, 1313, "U+00E9">>,
     <<1314, 1314, "U+00C9">>, <<1315, 1315, "U+00E9">>,
     <<1316, 1316, "U+00C9">>, <<1317, 1317, "U+00E9">>,
     <<1318, 1318, "U+00C9">>, <<1319, 1319, "U+00E9">>,
     <<1320, 1320, "U+00C9">>, <<1321, 1321, "U+00E9">>,
     <<1322, 1322, "U+00C9">>, <<1323, 1323, "U+00E9">>,
     <<1324, 1324, "U+00C9">>, <<1325, 1325, "U+00E9">>,
     <<1326, 1326, "U+00C9">>, <<1327, 1327, "U+00E9">>,
     <<1329, 1366, "U+00C9">>, <<1369, 1369, "U+00E9">>,
     <<1376, 1416, "U+00E9">>, <<1488, 1514, "U+00E9">>,
     <<1519, 1522, "U+00E9">>, <<1568, 1610, "U+00E9">>,
     <<1632, 1641, "U+0660">>, <<1646, 1647, "U+00E9">>,
     <<1649, 1747, "U+00E9">>, <<1749, 1749, "U+00E9">>,
     <<1765, 1766, "U+00E9">>, <<1774, 1775, "U+00E9">>,
     <<1776, 1785, "U+0660">>, <<1786, 1788, "U+00E9">>,
     <<1791, 1791, "U+00E9">>, <<1808, 1808, "U+00E9">>,
     <<1810, 1839, "U+00E9">>, <<1869, 1957, "U+00E9">>,
     <<1969, 1969, "U+00E9">>, <<1984, 1993, "U+0660">>,
     <<1994, 2026, "U+00E9">>, <<2036, 2037, "U+00E9">>,
     <<2042, 2042, "U+00E9">>, <<2048, 2069, "U+00E9">>,
     <<2074, 2074, "U+00E9">>, <<2084, 2084, "U+00E9">>,
     <<2088, 2088, "U+00E9">>, <<2112, 2136, "U+00E9">>,
     <<2144, 2154, "U+00E9">>, <<2160, 2183, "U+00E9">>,
     <<2185, 2190, "U+00E9">>, <<2208, 2249, "U+00E9">>,
     <<2308, 2361, "U+00E9">>, <<2365, 2365, "U+00E9">>,
     <<2384, 2384, "U+00E9">>, <<2392, 2401, "U+00E9">>,
     <<2406, 2415, "U+0660">>, <<2417, 2432, "U+00E9">>,
     <<2437, 2444, "U+00E9">>, <<2447, 2448, "U+00E9">>,
     <<2451, 2472, "U+00E9">>, <<2474, 2480, "U+00E9">>,
     <<2482, 2482, "U+00E9">>, <<2486, 2489, "U+00E9">>,
     <<2493, 2493, "U+00E9">>, <<2510, 2510, "U+00E9">>,
     <<2524, 2525, "U+00E9">>, <<2527, 2529, "U+00E9">>,
     <<2534, 2543, "U+0660">>, <<2544, 2545, "U+00E9">>,
     <<2548, 2553, "U+00E9">>, <<2556, 2556, "U+00E9">>,
     <<2565, 2570, "U+00E9">>, <<2575, 2576, "U+00E9">>,
     <<2579, 2600, "U+00E9">>, <<2602, 2608, "U+00E9">>,
     <<2610, 2611, "U+00E9">>, <<2613, 2614, "U+00E9">>,
     <<2616, 2617, "U+00E9">>, <<2649, 2652, "U+00E9">>,
     <<2654, 2654, "U+00E9">>, <<2662, 2671, "U+0660">>,
     <<2674, 2676, "U+00E9">>, <<2693, 2701, "U+00E9">>,
     <<2703, 2705, "U+00E9">>, <<2707, 2728, "U+00E9">>,
     <<2730, 2736, "U+00E9">>, <<2738, 2739, "U+00E9">>,
     <<2741, 2745, "U+00E9">>, <<2749, 2749, "U+00E9">>,
     <<2768, 2768, "U+00E9">>, <<2784, 2785, "U+00E9">>,
     <<2790, 2799, "U+0660">>, <<2809, 2809, "U+00E9">>,
     <<2821, 2828, "U+00E9">>, <<2831, 2832, "U+00E9">>,
     <<2835, 2856, "U+00E9">>, <<2858, 2864, "U+00E9">>,
     <<2866, 2867, "U+00E9">>, <<2869, 2873, "U+00E9">>,
     <<2877, 2877, "U+00E9">>, <<2908, 2909, "U+00E9">>,
     <<2911, 2913, "U+00E9">>, <<2918, 2927, "U+0660">>,
     <<2929, 2935, "U+00E9">>, <<2947, 2947, "U+00E9">>,
     <<2949, 2954, "U+00E9">>, <<2958, 2960, "U+00E9">>,
     <<2962, 2965, "U+00E9">>, <<2969, 2970, "U+00E9">>,
     <<2972, 2972, "U+00E9">>, <<2974, 2975, "U+00E9">>,
     <<2979, 2980, "U+00E9">>, <<2984, 2986, "U+00E9">>,
     <<2990, 3001, "U+00E9">>, <<3024, 3024, "U+00E9">>,
     <<3046, 3055, "U+0660">>, <<3056, 3058, "U+00E9">>,
     <<3077, 3084, "U+00E9">>, <<3086, 3088, "U+00E9">>,
     <<3090, 3112, "U+00E9">>, <<3114, 3129, "U+00E9">>,
     <<3133, 3133, "U+00E9">>, <<3160, 3162, "U+00E9">>,
     <<3165, 3165, "U+00E9">>, <<3168, 3169, "U+00E9">>,
     <<3174, 3183, "U+0660">>, <<3192, 3198, "U+00E9">>,
     <<3200, 3200, "U+00E9">>, <<3205, 3212, "U+00E9">>,
     <<3214, 3216, "U+00E9">>, <<3218, 3240, "U+00E9">>,
     <<3242, 3251, "U+00E9">>, <<3253, 3257, "U+00E9">>,
     <<3261, 3261, "U+00E9">>, <<3293, 3294, "U+00E9">>,
     <<3296, 3297, "U+00E9">>, <<3302, 3311, "U+0660">>,
     <<3313, 3314, "U+00E9">>, <<3332, 3340, "U+00E9">>,
     <<3342, 3344, "U+00E9">>, <<3346, 3386, "U+00E9">>,
     <<3389, 3389, "U+00E9">>, <<3406, 3406, "U+00E9">>,
     <<3412, 3414, "U+00E9">>, <<3416, 3425, "U+00E9">>,
     <<3430, 3439, "U+0660">>, <<3440, 3448, "U+00E9">>,
     <<3450, 3455, "U+00E9">>, <<3461, 3478, "U+00E9">>,
     <<3482, 3505, "U+00E9">>, <<3507, 3515, "U+00E9">>,
     <<3517, 3517, "U+00E9">>, <<3520, 3526, "U+00E9">>,
     <<3558, 3567, "U+0660">>, <<3585, 3632, "U+00E9">>,
     <<3634, 3635, "U+00E9">>, <<3648, 3654, "U+00E9">>,
     <<3664, 3673, "U+0660">>, <<3713, 3714, "U+00E9">>,
     <<3716, 3716, "U+00E9">>, <<3718, 3722, "U+00E9">>,
     <<3724, 3747, "U+00E9">>, <<3749, 3749, "U+00E9">>,
     <<3751, 3760, "U+00E9">>, <<3762, 3763, "U+00E9">>,
     <<3773, 3773, "U+00E9">>, <<3776, 3780, "U+00E9">>,
     <<3782, 3782, "U+00E9">>, <<3792, 3801, "U+0660">>,
     <<3804, 3807, "U+00E9">>, <<3840, 3840, "U+00E9">>,
     <<3872, 3881, "U+0660">>, <<3882, 3891, "U+00E9">>,
     <<3904, 3911, "U+00E9">>, <<3913, 3948, "U+00E9">>,
     <<3976, 3980, "U+00E9">>, <<4096, 4138, "U+00E9">>,
     <<4159, 4159, "U+00E9">>, <<4160, 4169, "U+0660">>,
     <<4176, 4181, "U+00E9">>, <<4186, 4189, "U+00E9">>,
     <<4193, 4193, "U+00E9">>, <<4197, 4198, "U+00E9">>,
     <<4206, 4208, "U+00E9">>, <<4213, 4225, "U+00E9">>,
     <<4238, 4238, "U+00E9">>, <<4240, 4249, "U+0660">>,
     <<4256, 4293, "U+00C9">>, <<4295, 4295, "U+00C9">>,
     <<4301, 4301, "U+00C9">>, <<4304, 4346, "U+00E9">>,
     <<4348, 4680, "U+00E9">>, <<4682, 4685, "U+00E9">>,
     <<4688, 4694, "U+00E9">>, <<4696, 4696, "U+00E9">>,
     <<4698, 4701, "U+00E9">>, <<4704, 4744, "U+00E9">>,
     <<4746, 4749, "U+00E9">>, <<4752, 4784, "U+00E9">>,
     <<4786, 4789, "U+00E9">>, <<4792, 4798, "U+00E9">>,
     <<4800, 4800, "U+00E9">>, <<4802, 4805, "U+00E9">>,
     <<4808, 4822, "U+00E9">>, <<4824, 4880, "U+00E9">>,
     <<4882, 4885, "U+00E9">>, <<4888, 4954, "U+00E9">>,
     <<4969, 4977, "U+00B2">>, <<4978, 4988, "U+00E9">>,
     <<4992, 5007, "U+00E9">>, <<5024, 5109, "U+00C9">>,
     <<5112, 5117, "U+00E9">>, <<5121, 5740, "U+00E9">>,
     <<5743, 5759, "U+00E9">>, <<5761, 5786, "U+00E9">>,
     <<5792, 5866, "U+00E9">>, <<5870, 5880, "U+00E9">>,
     <<5888, 5905, "U+00E9">>, <<5919, 5937, "U+00E9">>,
     <<5952, 5969, "U+00E9">>, <<5984, 5996, "U+00E9">>,
     <<5998, 6000, "U+00E9">>, <<6016, 6067, "U+00E9">>,
     <<6103, 6103, "U+00E9">>, <<6108, 6108, "U+00E9">>,
     <<6112, 6121, "U+0660">>, <<6128, 6137, "U+00E9">>,
     <<6160, 6169, "U+0660">>, <<6176, 6264, "U+00E9">>,
     <<6272, 6276, "U+00E9">>, <<6279, 6312, "U+00E9">>,
     <<6314, 6314, "U+00E9">>, <<6320, 6389, "U+00E9">>,
     <<6400, 6430, "U+00E9">>, <<6470, 6479, "U+0660">>,
     <<6480, 6509, "U+00E9">>, <<6512, 6516, "U+00E9">>,
     <<6528, 6571, "U+00E9">>, <<6576, 6601, "U+00E9">>,
     <<6608, 6617, "U+0660">>, <<6618, 6618, "U+00B2">>,
     <<6656, 6678, "U+00E9">>, <<6688, 6740, "U+00E9">>,
     <<6784, 6793, "U+0660">>, <<6800, 6809, "U+0660">>,
     <<6823, 6823, "U+00E9">>, <<6917, 6963, "U+00E9">>,
     <<6981, 6988, "U+00E9">>, <<6992, 7001, "U+0660">>,
     <<7043, 7072, "U+00E9">>, <<7086, 7087, "U+00E9">>,
     <<7088, 7097, "U+0660">>, <<7098, 7141, "U+00E9">>,
     <<7168, 7203, "U+00E9">>, <<7232, 7241, "U+0660">>,
     <<7245, 7247, "U+00E9">>, <<7248, 7257, "U+0660">>,
     <<7258, 7293, "U+00E9">>, <<7296, 7304, "U+00E9">>,
     <<7312, 7354, "U+00C9">>, <<7357, 7359, "U+00C9">>,
     <<7401, 7404, "U+00E9">>, <<7406, 7411, "U+00E9">>,
     <<7413, 7414, "U+00E9">>, <<7418, 7418, "U+00E9">>,
     <<7424, 7615, "U+00E9">>, <<7680, 7680, "U+00C9">>,
     <<7681, 7681, "U+00E9">>, <<7682, 7682, "U+00C9">>,
     <<7683, 7683, "U+00E9">>, <<7684, 7684, "U+00C9">>,
     <<7685, 7685, "U+00E9">>, <<7686, 7686, "U+00C9">>,
     <<7687, 7687, "U+00E9">>, <<7688, 7688, "U+00C9">>,
     <<7689, 7689, "U+00E9">>, <<7690, 7690, "U+00C9">>,
     <<7691, 7691, "U+00E9">>, <<7692, 7692, "U+00C9">>,
     <<7693, 7693, "U+00E9">>, <<7694, 7694, "U+00C9">>,
     <<7695, 7695, "U+00E9">>, <<7696, 7696, "U+00C9">>,
     <<7697, 7697, "U+00E9">>, <<7698, 7698, "U+00C9">>,
     <<7699, 7699, "U+00E9">>, <<7700, 7700, "U+00C9">>,
     <<7701, 7701, "U+00E9">>, <<7702, 7702, "U+00C9">>,
     <<7703, 7703, "U+00E9">>, <<7704, 7704, "U+00C9">>,
     <<7705, 7705, "U+00E9">>, <<7706, 7706, "U+00C9">>,
     <<7707, 7707, "U+00E9">>, <<7708, 7708, "U+00C9">>,
     <<7709, 7709, "U+00E9">>, <<7710, 7710, "U+00C9">>,
     <<7711, 7711, "U+00E9">>, <<7712, 7712, "U+00C9">>,
     <<7713, 7713, "U+00E9">>, <<7714, 7714, "U+00C9">>,
     <<7715, 7715, "U+00E9">>, <<7716, 7716, "U+00C9">>,
     <<7717, 7717, "U+00E9">>, <<7718, 7718, "U+00C9">>,
     <<7719, 7719, "U+00E9">>, <<7720, 7720, "U+00C9">>,
     <<7721, 7721, "U+00E9">>, <<7722, 7722, "U+00C9">>,
     <<7723, 7723, "U+00E9">>, <<7724, 7724, "U+00C9">>,
     <<7725, 7725, "U+00E9">>, <<7726, 7726, "U+00C9">>,
     <<7727, 7727, "U+00E9">>, <<7728, 7728, "U+00C9">>,
     <<7729, 7729, "U+00E9">>, <<7730, 7730, "U+00C9">>,
     <<7731, 7731, "U+00E9">>, <<7732, 7732, "U+00C9">>,
     <<7733, 7733, "U+00E9">>, <<7734, 7734, "U+00C9">>,
     <<7735, 7735, "U+00E9">>, <<7736, 7736, "U+00C9">>,
     <<7737, 7737, "U+00E9">>, <<7738, 7738, "U+00C9">>,
     <<7739, 7739, "U+00E9">>, <<7740, 7740, "U+00C9">>,
     <<7741, 7741, "U+00E9">>, <<7742, 7742, "U+00C9">>,
     <<7743, 7743, "U+00E9">>, <<7744, 7744, "U+00C9">>,
     <<7745, 7745, "U+00E9">>, <<7746, 7746, "U+00C9">>,
     <<7747, 7747, "U+00E9">>, <<7748, 7748, "U+00C9">>,
     <<7749, 7749, "U+00E9">>, <<7750, 7750, "U+00C9">>,
     <<7751, 7751, "U+00E9">>, <<7752, 7752, "U+00C9">>,
     <<7753, 7753, "U+00E9">>, <<7754, 7754, "U+00C9">>,
     <<7755, 7755, "U+00E9">>, <<7756, 7756, "U+00C9">>,
     <<7757, 7757, "U+00E9">>, <<7758, 7758, "U+00C9">>,
     <<7759, 7759, "U+00E9">>, <<7760, 7760, "U+00C9">>,
     <<7761, 7761, "U+00E9">>, <<7762, 7762, "U+00C9">>,
     <<7763, 7763, "U+00E9">>, <<7764, 7764, "U+00C9">>,
     <<7765, 7765, "U+00E9">>, <<7766, 7766, "U+00C9">>,
     <<7767, 7767, "U+00E9">>, <<7768, 7768, "U+00C9">>,
     <<7769, 7769, "U+00E9">>, <<7770, 7770, "U+00C9">>,
     <<7771, 7771, "U+00E9">>, <<7772, 7772, "U+00C9">>,
     <<7773, 7773, "U+00E9">>, <<7774, 7774, "U+00C9">>,
     <<7775, 7775, "U+00E9">>, <<7776, 7776, "U+00C9">>,
     <<7777, 7777, "U+00E9">>, <<7778, 7778, "U+00C9">>,
     <<7779, 7779, "U+00E9">>, <<7780, 7780, "U+00C9">>,
     <<7781, 7781, "U+00E9">>, <<7782, 7782, "U+00C9">>,
     <<7783, 7783, "U+00E9">>, <<7784, 7784, "U+00C9">>,
     <<7785, 7785, "U+00E9">>, <<7786, 7786, "U+00C9">>,
     <<7787, 7787, "U+00E9">>, <<7788, 7788, "U+00C9">>,
     <<7789, 7789, "U+00E9">>, <<7790, 7790, "U+00C9">>,
     <<7791, 7791, "U+00E9">>, <<7792, 7792, "U+00C9">>,
     <<7793, 7793, "U+00E9">>, <<7794, 7794, "U+00C9">>,
     <<7795, 7795, "U+00E9">>, <<7796, 7796, "U+00C9">>,
     <<7797, 7797, "U+00E9">>, <<7798, 7798, "U+00C9">>,
     <<7799, 7799, "U+00E9">>, <<7800, 7800, "U+00C9">>,
     <<7801, 7801, "U+00E9">>, <<7802, 7802, "U+00C9">>,
     <<7803, 7803, "U+00E9">>, <<7804, 7804, "U+00C9">>,
     <<7805, 7805, "U+00E9">>, <<7806, 7806, "U+00C9">>,
     <<7807, 7807, "U+00E9">>, <<7808, 7808, "U+00C9">>,
     <<7809, 7809, "U+00E9">>, <<7810, 7810, "U+00C9">>,
     <<7811, 7811, "U+00E9">>, <<7812, 7812, "U+00C9">>,
     <<7813, 7813, "U+00E9">>, <<7814, 7814, "U+00C9">>,
     <<7815, 7815, "U+00E9">>, <<7816, 7816, "U+00C9">>,
     <<7817, 7817, "U+00E9">>, <<7818, 7818, "U+00C9">>,
     <<7819, 7819, "U+00E9">>, <<7820, 7820, "U+00C9">>,
     <<7821, 7821, "U+00E9">>, <<7822, 7822, "U+00C9">>,
     <<7823, 7823, "U+00E9">>, <<7824, 7824, "U+00C9">>,
     <<7825, 7825, "U+00E9">>, <<7826, 7826, "U+00C9">>,
     <<7827, 7827, "U+00E9">>, <<7828, 7828, "U+00C9">>,
     <<7829, 7837, "U+00E9">>, <<7838, 7838, "U+00C9">>,
     <<7839, 7839, "U+00E9">>, <<7840, 7840, "U+00C9">>,
     <<7841, 7841, "U+00E9">>, <<7842, 7842, "U+00C9">>,
     <<7843, 7843, "U+00E9">>, <<7844, 7844, "U+00C9">>,
     <<7845, 7845, "U+00E9">>, <<7846, 7846, "U+00C9">>,
     <<7847, 7847, "U+00E9">>, <<7848, 7848, "U+00C9">>,
     <<7849, 7849, "U+00E9">>, <<7850, 7850, "U+00C9">>,
     <<7851, 7851, "U+00E9">>, <<7852, 7852, "U+00C9">>,
     <<7853, 7853, "U+00E9">>, <<7854, 7854, "U+00C9">>,
     <<7855, 7855, "U+00E9">>, <<7856, 7856, "U+00C9">>,
     <<7857, 7857, "U+00E9">>, <<7858, 7858, "U+00C9">>,
     <<7859, 7859, "U+00E9">>, <<7860, 7860, "U+00C9">>,
     <<7861, 7861, "U+00E9">>, <<7862, 7862, "U+00C9">>,
     <<7863, 7863, "U+00E9">>, <<7864, 7864, "U+00C9">>,
     <<7865, 7865, "U+00E9">>, <<7866, 7866, "U+00C9">>,
     <<7867, 7867, "U+00E9">>, <<7868, 7868, "U+00C9">>,
     <<7869, 7869, "U+00E9">>, <<7870, 7870, "U+00C9">>,
     <<7871, 7871, "U+00E9">>, <<7872, 7872, "U+00C9">>,
     <<7873, 7873, "U+00E9">>, <<7874, 7874, "U+00C9">>,
     <<7875, 7875, "U+00E9">>, <<7876, 7876, "U+00C9">>,
     <<7877, 7877, "U+00E9">>, <<7878, 7878, "U+00C9">>,
     <<7879, 7879, "U+00E9">>, <<7880, 7880, "U+00C9">>,
     <<7881, 7881, "U+00E9">>, <<7882, 7882, "U+00C9">>,
     <<7883, 7883, "U+00E9">>, <<7884, 7884, "U+00C9">>,
     <<7885, 7885, "U+00E9">>, <<7886, 7886, "U+00C9">>,
     <<7887, 7887, "U+00E9">>, <<7888, 7888, "U+00C9">>,
     <<7889, 7889, "U+00E9">>, <<7890, 7890, "U+00C9">>,
     <<7891, 7891, "U+00E9">>, <<7892, 7892, "U+00C9">>,
     <<7893, 7893, "U+00E9">>, <<7894, 7894, "U+00C9">>,
     <<7895, 7895, "U+00E9">>, <<7896, 7896, "U+00C9">>,
     <<7897, 7897, "U+00E9">>, <<7898, 7898, "U+00C9">>,
     <<7899, 7899, "U+00E9">>, <<7900, 7900, "U+00C9">>,
     <<7901, 7901, "U+00E9">>, <<7902, 7902, "U+00C9">>,
     <<7903, 7903, "U+00E9">>, <<7904, 7904, "U+00C9">>,
     <<7905, 7905, "U+00E9">>, <<7906, 7906, "U+00C9">>,
     <<7907, 7907, "U+00E9">>, <<7908, 7908, "U+00C9">>,
     <<7909, 7909, "U+00E9">>, <<7910, 7910, "U+00C9">>,
     <<7911, 7911, "U+00E9">>, <<7912, 7912, "U+00C9">>,
     <<7913, 7913, "U+00E9">>, <<7914, 7914, "U+00C9">>,
     <<7915, 7915, "U+00E9">>, <<7916, 7916, "U+00C9">>,
     <<7917, 7917, "U+00E9">>, <<7918, 7918, "U+00C9">>,
     <<7919, 7919, "U+00E9">>, <<7920, 7920, "U+00C9">>,
     <<7921, 7921, "U+00E9">>, <<7922, 7922, "U+00C9">>,
     <<7923, 7923, "U+00E9">>, <<7924, 7924, "U+00C9">>,
     <<7925, 7925, "U+00E9">>, <<7926, 7926, "U+00C9">>,
     <<7927, 7927, "U+00E9">>, <<7928, 7928, "U+00C9">>,
     <<7929, 7929, "U+00E9">>, <<7930, 7930, "U+00C9">>,
     <<7931, 7931, "U+00E9">>, <<7932, 7932, "U+00C9">>,
     <<7933, 7933, "U+00E9">>, <<7934, 7934, "U+00C9">>,
     <<7935, 7943, "U+00E9">>, <<7944, 7951, "U+00C9">>,
     <<7952, 7957, "U+00E9">>, <<7960, 7965, "U+00C9">>,
     <<7968, 7975, "U+00E9">>, <<7976, 7983, "U+00C9">>,
     <<7984, 7991, "U+00E9">>, <<7992, 7999, "U+00C9">>,
     <<8000, 8005, "U+00E9">>, <<8008, 8013, "U+00C9">>,
     <<8016, 8023, "U+00E9">>, <<8025, 8025, "U+00C9">>,
     <<8027, 8027, "U+00C9">>, <<8029, 8029, "U+00C9">>,
     <<8031, 8031, "U+00C9">>, <<8032, 8039, "U+00E9">>,
     <<8040, 8047, "U+00C9">>, <<8048, 8061, "U+00E9">>,
     <<8064, 8071, "U+00E9">>, <<8072, 8079, "U+01C5">>,
     <<8080, 8087, "U+00E9">>, <<8088, 8095, "U+01C5">>,
     <<8096, 8103, "U+00E9">>, <<8104, 8111, "U+01C5">>,
     <<8112, 8116, "U+00E9">>, <<8118, 8119, "U+00E9">>,
     <<8120, 8123, "U+00C9">>, <<8124, 8124, "U+01C5">>,
     <<8126, 8126, "U+00E9">>, <<8130, 8132, "U+00E9">>,
     <<8134, 8135, "U+00E9">>, <<8136, 8139, "U+00C9">>,
     <<8140, 8140, "U+01C5">>, <<8144, 8147, "U+00E9">>,
     <<8150, 8151, "U+00E9">>, <<8152, 8155, "U+00C9">>,
     <<8160, 8167, "U+00E9">>, <<8168, 8172, "U+00C9">>,
     <<8178, 8180, "U+00E9">>, <<8182, 8183, "U+00E9">>,
     <<8184, 8187, "U+00C9">>, <<8188, 8188, "U+01C5">>,
     <<8304, 8304, "U+00B2">>, <<8305, 8305, "U+00E9">>,
     <<8308, 8313, "U+00B2">>, <<8319, 8319, "U+00E9">>,
     <<8320, 8329, "U+00B2">>, <<8336, 8348, "U+00E9">>,
     <<8450, 8450, "U+03D2">>, <<8455, 8455, "U+03D2">>,
     <<8458, 8458, "U+00E9">>, <<8459, 8461, "U+03D2">>,
     <<8462, 8463, "U+00E9">>, <<8464, 8466, "U+03D2">>,
     <<8467, 8467, "U+00E9">>, <<8469, 8469, "U+03D2">>,
     <<8473, 8477, "U+03D2">>, <<8484, 8484, "U+03D2">>,
     <<8486, 8486, "U+00C9">>, <<8488, 8488, "U+03D2">>,
     <<8490, 8490, "U+212A">>, <<8491, 8491, "U+00C9">>,
     <<8492, 8493, "U+03D2">>, <<8495, 8495, "U+00E9">>,
     <<8496, 8497, "U+03D2">>, <<8498, 8498, "U+00C9">>,
     <<8499, 8499, "U+03D2">>, <<8500, 8505, "U+00E9">>,
     <<8508, 8509, "U+00E9">>, <<8510, 8511, "U+03D2">>,
     <<8517, 8517, "U+03D2">>, <<8518, 8521, "U+00E9">>,
     <<8526, 8526, "U+00E9">>, <<8528, 8543, "U+00E9">>,
     <<8544, 8559, "U+00C9">>, <<8560, 8578, "U+00E9">>,
     <<8579, 8579, "U+00C9">>, <<8580, 8585, "U+00E9">>,
     <<9312, 9320, "U+00B2">>, <<9321, 9331, "U+00E9">>,
     <<9332, 9340, "U+00B2">>, <<9341, 9351, "U+00E9">>,
     <<9352, 9360, "U+00B2">>, <<9361, 9371, "U+00E9">>,
     <<9398, 9423, "U+24B6">>, <<9450, 9450, "U+00B2">>,
     <<9451, 9460, "U+00E9">>, <<9461, 9469, "U+00B2">>,
     <<9470, 9470, "U+00E9">>, <<9471, 9471, "U+00B2">>,
     <<10102, 10110, "U+00B2">>, <<10111, 10111, "U+00E9">>,
     <<10112, 10120, "U+00B2">>, <<10121, 10121, "U+00E9">>,
     <<10122, 10130, "U+00B2">>, <<10131, 10131, "U+00E9">>,
     <<11264, 11311, "U+00C9">>, <<11312, 11359, "U+00E9">>,
     <<11360, 11360, "U+00C9">>, <<11361, 11361, "U+00E9">>,
     <<11362, 11364, "U+00C9">>, <<11365, 11366, "U+00E9">>,
     <<11367, 11367, "U+00C9">>, <<11368, 11368, "U+00E9">>,
     <<11369, 11369, "U+00C9">>, <<11370, 11370, "U+00E9">>,
     <<11371, 11371, "U+00C9">>, <<11372, 11372, "U+00E9">>,
     <<11373, 11376, "U+00C9">>, <<11377, 11377, "U+00E9">>,
     <<11378, 11378, "U+00C9">>, <<11379, 11380, "U+00E9">>,
     <<11381, 11381, "U+00C9">>, <<11382, 11389, "U+00E9">>,
     <<11390, 11392, "U+00C9">>, <<11393, 11393, "U+00E9">>,
     <<11394, 11394, "U+00C9">>, <<11395, 11395, "U+00E9">>,
     <<11396, 11396, "U+00C9">>, <<11397, 11397, "U+00E9">>,
     <<11398, 11398, "U+00C9">>, <<11399, 11399, "U+00E9">>,
     <<11400, 11400, "U+00C9">>, <<11401, 11401, "U+00E9">>,
     <<11402, 11402, "U+00C9">>, <<11403, 11403, "U+00E9">>,
     <<11404, 11404, "U+00C9">>, <<11405, 11405, "U+00E9">>,
     <<11406, 11406, "U+00C9">>, <<11407, 11407, "U+00E9">>,
     <<11408, 11408, "U+00C9">>, <<11409, 11409, "U+00E9">>,
     <<11410, 11410, "U+00C9">>, <<11411, 11411, "U+00E9">>,
     <<11412, 11412, "U+00C9">>, <<11413, 11413, "U+00E9">>,
     <<11414, 11414, "U+00C9">>, <<11415, 11415, "U+00E9">>,
     <<11416, 11416, "U+00C9">>, <<11417, 11417, "U+00E9">>,
     <<11418, 11418, "U+00C9">>, <<11419, 11419, "U+00E9">>,
     <<11420, 11420, "U+00C9">>, <<11421, 11421, "U+00E9">>,
     <<11422, 11422, "U+00C9">>, <<11423, 11423, "U+00E9">>,
     <<11424, 11424, "U+00C9">>, <<11425, 11425, "U+00E9">>,
     <<11426, 11426, "U+00C9">>, <<11427, 11427, "U+00E9">>,
     <<11428, 11428, "U+00C9">>, <<11429, 11429, "U+00E9">>,
     <<11430, 11430, "U+00C9">>, <<11431, 11431, "U+00E9">>,
     <<11432, 11432, "U+00C9">>, <<11433, 11433, "U+00E9">>,
     <<11434, 11434, "U+00C9">>, <<11435, 11435, "U+00E9">>,
     <<11436, 11436, "U+00C9">>, <<11437, 11437, "U+00E9">>,
     <<11438, 11438, "U+00C9">>, <<11439, 11439, "U+00E9">>,
     <<11440, 11440, "U+00C9">>, <<11441, 11441, "U+00E9">>,
     <<11442, 11442, "U+00C9">>, <<11443, 11443, "U+00E9">>,
     <<11444, 11444, "U+00C9">>, <<11445, 11445, "U+00E9">>,
     <<11446, 11446, "U+00C9">>, <<11447, 11447, "U+00E9">>,
     <<11448, 11448, "U+00C9">>, <<11449, 11449, "U+00E9">>,
     <<11450, 11450, "U+00C9">>, <<11451, 11451, "U+00E9">>,
     <<11452, 11452, "U+00C9">>, <<11453, 11453, "U+00E9">>,
     <<11454, 11454, "U+00C9">>, <<11455, 11455, "U+00E9">>,
     <<11456, 11456, "U+00C9">>, <<11457, 11457, "U+00E9">>,
     <<11458, 11458, "U+00C9">>, <<11459, 11459, "U+00E9">>,
     <<11460, 11460, "U+00C9">>, <<11461, 11461, "U+00E9">>,
     <<11462, 11462, "U+00C9">>, <<11463, 11463, "U+00E9">>,
     <<11464, 11464, "U+00C9">>, <<11465, 11465, "U+00E9">>,
     <<11466, 11466, "U+00C9">>, <<11467, 11467, "U+00E9">>,
     <<11468, 11468, "U+00C9">>, <<11469, 11469, "U+00E9">>,
     <<11470, 11470, "U+00C9">>, <<11471, 11471, "U+00E9">>,
     <<11472, 11472, "U+00C9">>, <<11473, 11473, "U+00E9">>,
     <<11474, 11474, "U+00C9">>, <<11475, 11475, "U+00E9">>,
     <<11476, 11476, "U+00C9">>, <<11477, 11477, "U+00E9">>,
     <<11478, 11478, "U+00C9">>, <<11479, 11479, "U+00E9">>,
     <<11480, 11480, "U+00C9">>, <<11481, 11481, "U+00E9">>,
     <<11482, 11482, "U+00C9">>, <<11483, 11483, "U+00E9">>,
     <<11484, 11484, "U+00C9">>, <<11485, 11485, "U+00E9">>,
     <<11486, 11486, "U+00C9">>, <<11487, 11487, "U+00E9">>,
     <<11488, 11488, "U+00C9">>, <<11489, 11489, "U+00E9">>,
     <<11490, 11490, "U+00C9">>, <<11491, 11492, "U+00E9">>,
     <<11499, 11499, "U+00C9">>, <<11500, 11500, "U+00E9">>,
     <<11501, 11501, "U+00C9">>, <<11502, 11502, "U+00E9">>,
     <<11506, 11506, "U+00C9">>, <<11507, 11507, "U+00E9">>,
     <<11517, 11517, "U+00E9">>, <<11520, 11557, "U+00E9">>,
     <<11559, 11559, "U+00E9">>, <<11565, 11565, "U+00E9">>,
     <<11568, 11623, "U+00E9">>, <<11631, 11631, "U+00E9">>,
     <<11648, 11670, "U+00E9">>, <<11680, 11686, "U+00E9">>,
     <<11688, 11694, "U+00E9">>, <<11696, 11702, "U+00E9">>,
     <<11704, 11710, "U+00E9">>, <<11712, 11718, "U+00E9">>,
     <<11720, 11726, "U+00E9">>, <<11728, 11734, "U+00E9">>,
     <<11736, 11742, "U+00E9">>, <<11823, 11823, "U+00E9">>,
     <<12293, 12295, "U+00E9">>, <<12321, 12329, "U+00E9">>,
     <<12337, 12341, "U+00E9">>, <<12344, 12348, "U+00E9">>,
     <<12353, 12438, "U+00E9">>, <<12445, 12447, "U+00E9">>,
     <<12449, 12538, "U+00E9">>, <<12540, 12543, "U+00E9">>,
     <<12549, 12591, "U+00E9">>, <<12593, 12686, "U+00E9">>,
     <<12690, 12693, "U+00E9">>, <<12704, 12735, "U+00E9">>,
     <<12784, 12799, "U+00E9">>, <<12832, 12841, "U+00E9">>,
     <<12872, 12879, "U+00E9">>, <<12881, 12895, "U+00E9">>,
     <<12928, 12937, "U+00E9">>, <<12977, 12991, "U+00E9">>,
     <<13312, 19903, "U+00E9">>, <<19968, 42124, "U+00E9">>,
     <<42192, 42237, "U+00E9">>, <<42240, 42508, "U+00E9">>,
     <<42512, 42527, "U+00E9">>, <<42528, 42537, "U+0660">>,
     <<42538, 42539, "U+00E9">>, <<42560, 42560, "U+00C9">>,
     <<42561, 42561, "U+00E9">>, <<42562, 42562, "U+00C9">>,
     <<42563, 42563, "U+00E9">>, <<42564, 42564, "U+00C9">>,
     <<42565, 42565, "U+00E9">>, <<42566, 42566, "U+00C9">>,
     <<42567, 42567, "U+00E9">>, <<42568, 42568, "U+00C9">>,
     <<42569, 42569, "U+00E9">>, <<42570, 42570, "U+00C9">>,
     <<42571, 42571, "U+00E9">>, <<42572, 42572, "U+00C9">>,
     <<42573, 42573, "U+00E9">>, <<42574, 42574, "U+00C9">>,
     <<42575, 42575, "U+00E9">>, <<42576, 42576, "U+00C9">>,
     <<42577, 42577, "U+00E9">>, <<42578, 42578, "U+00C9">>,
     <<42579, 42579, "U+00E9">>, <<42580, 42580, "U+00C9">>,
     <<42581, 42581, "U+00E9">>, <<42582, 42582, "U+00C9">>,
     <<42583, 42583, "U+00E9">>, <<42584, 42584, "U+00C9">>,
     <<42585, 42585, "U+00E9">>, <<42586, 42586, "U+00C9">>,
     <<42587, 42587, "U+00E9">>, <<42588, 42588, "U+00C9">>,
     <<42589, 42589, "U+00E9">>, <<42590, 42590, "U+00C9">>,
     <<42591, 42591, "U+00E9">>, <<42592, 42592, "U+00C9">>,
     <<42593, 42593, "U+00E9">>, <<42594, 42594, "U+00C9">>,
     <<42595, 42595, "U+00E9">>, <<42596, 42596, "U+00C9">>,
     <<42597, 42597, "U+00E9">>, <<42598, 42598, "U+00C9">>,
     <<42599, 42599, "U+00E9">>, <<42600, 42600, "U+00C9">>,
     <<42601, 42601, "U+00E9">>, <<42602, 42602, "U+00C9">>,
     <<42603, 42603, "U+00E9">>, <<42604, 42604, "U+00C9">>,
     <<42605, 42606, "U+00E9">>, <<42623, 42623, "U+00E9">>,
     <<42624, 42624, "U+00C9">>, <<42625, 42625, "U+00E9">>,
     <<42626, 42626, "U+00C9">>, <<42627, 42627, "U+00E9">>,
     <<42628, 42628, "U+00C9">>, <<42629, 42629, "U+00E9">>,
     <<42630, 42630, "U+00C9">>, <<42631, 42631, "U+00E9">>,
     <<42632, 42632, "U+00C9">>, <<42633, 42633, "U+00E9">>,
     <<42634, 42634, "U+00C9">>, <<42635, 42635, "U+00E9">>,
     <<42636, 42636, "U+00C9">>, <<42637, 42637, "U+00E9">>,
     <<42638, 42638, "U+00C9">>, <<42639, 42639, "U+00E9">>,
     <<42640, 42640, "U+00C9">>, <<42641, 42641, "U+00E9">>,
     <<42642, 42642, "U+00C9">>, <<42643, 42643, "U+00E9">>,
     <<42644, 42644, "U+00C9">>, <<42645, 42645, "U+00E9">>,
     <<42646, 42646, "U+00C9">>, <<42647, 42647, "U+00E9">>,
     <<42648, 42648, "U+00C9">>, <<42649, 42649, "U+00E9">>,
     <<42650, 42650, "U+00C9">>, <<42651, 42653, "U+00E9">>,
     <<42656, 42735, "U+00E9">>, <<42775, 42783, "U+00E9">>,
     <<42786, 42786, "U+00C9">>, <<42787, 42787, "U+00E9">>,
     <<42788, 42788, "U+00C9">>, <<42789, 42789, "U+00E9">>,
     <<42790, 42790, "U+00C9">>, <<42791, 42791, "U+00E9">>,
     <<42792, 42792, "U+00C9">>, <<42793, 42793, "U+00E9">>,
     <<42794, 42794, "U+00C9">>, <<42795, 42795, "U+00E9">>,
     <<42796, 42796, "U+00C9">>, <<42797, 42797, "U+00E9">>,
     <<42798, 42798, "U+00C9">>, <<42799, 42801, "U+00E9">>,
     <<42802, 42802, "U+00C9">>, <<42803, 42803, "U+00E9">>,
     <<42804, 42804, "U+00C9">>, <<42805, 42805, "U+00E9">>,
     <<42806, 42806, "U+00C9">>, <<42807, 42807, "U+00E9">>,
     <<42808, 42808, "U+00C9">>, <<42809, 42809, "U+00E9">>,
     <<42810, 42810, "U+00C9">>, <<42811, 42811, "U+00E9">>,
     <<42812, 42812, "U+00C9">>, <<42813, 42813, "U+00E9">>,
     <<42814, 42814, "U+00C9">>, <<42815, 42815, "U+00E9">>,
     <<42816, 42816, "U+00C9">>, <<42817, 42817, "U+00E9">>,
     <<42818, 42818, "U+00C9">>, <<42819, 42819, "U+00E9">>,
     <<42820, 42820, "U+00C9">>, <<42821, 42821, "U+00E9">>,
     <<42822, 42822, "U+00C9">>, <<42823, 42823, "U+00E9">>,
     <<42824, 42824, "U+00C9">>, <<42825, 42825, "U+00E9">>,
     <<42826, 42826, "U+00C9">>, <<42827, 42827, "U+00E9">>,
     <<42828, 42828, "U+00C9">>, <<42829, 42829, "U+00E9">>,
     <<42830, 42830, "U+00C9">>, <<42831, 42831, "U+00E9">>,
     <<42832, 42832, "U+00C9">>, <<42833, 42833, "U+00E9">>,
     <<42834, 42834, "U+00C9">>, <<42835, 42835, "U+00E9">>,
     <<42836, 42836, "U+00C9">>, <<42837, 42837, "U+00E9">>,
     <<42838, 42838, "U+00C9">>, <<42839, 42839, "U+00E9">>,
     <<42840, 42840, "U+00C9">>, <<42841, 42841, "U+00E9">>,
     <<42842, 42842, "U+00C9">>, <<42843, 42843, "U+00E9">>,
     <<42844, 42844, "U+00C9">>, <<42845, 42845, "U+00E9">>,
     <<42846, 42846, "U+00C9">>, <<42847, 42847, "U+00E9">>,
     <<42848, 42848, "U+00C9">>, <<42849, 42849, "U+00E9">>,
     <<42850, 42850, "U+00C9">>, <<42851, 42851, "U+00E9">>,
     <<42852, 42852, "U+00C9">>, <<42853, 42853, "U+00E9">>,
     <<42854, 42854, "U+00C9">>, <<42855, 42855, "U+00E9">>,
     <<42856, 42856, "U+00C9">>, <<42857, 42857, "U+00E9">>,
     <<42858, 42858, "U+00C9">>, <<42859, 42859, "U+00E9">>,
     <<42860, 42860, "U+00C9">>, <<42861, 42861, "U+00E9">>,
     <<42862, 42862, "U+00C9">>, <<42863, 42872, "U+00E9">>,
     <<42873, 42873, "U+00C9">>, <<42874, 42874, "U+00E9">>,
     <<42875, 42875, "U+00C9">>, <<42876, 42876, "U+00E9">>,
     <<42877, 42878, "U+00C9">>, <<42879, 42879, "U+00E9">>,
     <<42880, 42880, "U+00C9">>, <<42881, 42881, "U+00E9">>,
     <<42882, 42882, "U+00C9">>, <<42883, 42883, "U+00E9">>,
     <<42884, 42884, "U+00C9">>, <<42885, 42885, "U+00E9">>,
     <<42886, 42886, "U+00C9">>, <<42887, 42888, "U+00E9">>,
     <<42891, 42891, "U+00C9">>, <<42892, 42892, "U+00E9">>,
     <<42893, 42893, "U+00C9">>, <<42894, 42895, "U+00E9">>,
     <<42896, 42896, "U+00C9">>, <<42897, 42897, "U+00E9">>,
     <<42898, 42898, "U+00C9">>, <<42899, 42901, "U+00E9">>,
     <<42902, 42902, "U+00C9">>, <<42903, 42903, "U+00E9">>,
     <<42904, 42904, "U+00C9">>, <<42905, 42905, "U+00E9">>,
     <<42906, 42906, "U+00C9">>, <<42907, 42907, "U+00E9">>,
     <<42908, 42908, "U+00C9">>, <<42909, 42909, "U+00E9">>,
     <<42910, 42910, "U+00C9">>, <<42911, 42911, "U+00E9">>,
     <<42912, 42912, "U+00C9">>, <<42913, 42913, "U+00E9">>,
     <<42914, 42914, "U+00C9">>, <<42915, 42915, "U+00E9">>,
     <<42916, 42916, "U+00C9">>, <<42917, 42917, "U+00E9">>,
     <<42918, 42918, "U+00C9">>, <<42919, 42919, "U+00E9">>,
     <<42920, 42920, "U+00C9">>, <<42921, 42921, "U+00E9">>,
     <<42922, 42926, "U+00C9">>, <<42927, 42927, "U+00E9">>,
     <<42928, 42932, "U+00C9">>, <<42933, 42933, "U+00E9">>,
     <<42934, 42934, "U+00C9">>, <<42935, 42935, "U+00E9">>,
     <<42936, 42936, "U+00C9">>, <<42937, 42937, "U+00E9">>,
     <<42938, 42938, "U+00C9">>, <<42939, 42939, "U+00E9">>,
     <<42940, 42940, "U+00C9">>, <<42941, 42941, "U+00E9">>,
     <<42942, 42942, "U+00C9">>, <<42943, 42943, "U+00E9">>,
     <<42944, 42944, "U+00C9">>, <<42945, 42945, "U+00E9">>,
     <<42946, 42946, "U+00C9">>, <<42947, 42947, "U+00E9">>,
     <<42948, 42951, "U+00C9">>, <<42952, 42952, "U+00E9">>,
     <<42953, 42953, "U+00C9">>, <<42954, 42954, "U+00E9">>,
     <<42960, 42960, "U+00C9">>, <<42961, 42961, "U+00E9">>,
     <<42963, 42963, "U+00E9">>, <<42965, 42965, "U+00E9">>,
     <<42966, 42966, "U+00C9">>, <<42967, 42967, "U+00E9">>,
     <<42968, 42968, "U+00C9">>, <<42969, 42969, "U+00E9">>,
     <<42994, 42996, "U+00E9">>, <<42997, 42997, "U+00C9">>,
     <<42998, 43009, "U+00E9">>, <<43011, 43013, "U+00E9">>,
     <<43015, 43018, "U+00E9">>, <<43020, 43042, "U+00E9">>,
     <<43056, 43061, "U+00E9">>, <<43072, 43123, "U+00E9">>,
     <<43138, 43187, "U+00E9">>, <<43216, 43225, "U+0660">>,
     <<43250, 43255, "U+00E9">>, <<43259, 43259, "U+00E9">>,
     <<43261, 43262, "U+00E9">>, <<43264, 43273, "U+0660">>,
     <<43274, 43301, "U+00E9">>, <<43312, 43334, "U+00E9">>,
     <<43360, 43388, "U+00E9">>, <<43396, 43442, "U+00E9">>,
     <<43471, 43471, "U+00E9">>, <<43472, 43481, "U+0660">>,
     <<43488, 43492, "U+00E9">>, <<43494, 43503, "U+00E9">>,
     <<43504, 43513, "U+0660">>, <<43514, 43518, "U+00E9">>,
     <<43520, 43560, "U+00E9">>, <<43584, 43586, "U+00E9">>,
     <<43588, 43595, "U+00E9">>, <<43600, 43609, "U+0660">>,
     <<43616, 43638, "U+00E9">>, <<43642, 43642, "U+00E9">>,
     <<43646, 43695, "U+00E9">>, <<43697, 43697, "U+00E9">>,
     <<43701, 43702, "U+00E9">>, <<43705, 43709, "U+00E9">>,
     <<43712, 43712, "U+00E9">>, <<43714, 43714, "U+00E9">>,
     <<43739, 43741, "U+00E9">>, <<43744, 43754, "U+00E9">>,
     <<43762, 43764, "U+00E9">>, <<43777, 43782, "U+00E9">>,
     <<43785, 43790, "U+00E9">>, <<43793, 43798, "U+00E9">>,
     <<43808, 43814, "U+00E9">>, <<43816, 43822, "U+00E9">>,
     <<43824, 43866, "U+00E9">>, <<43868, 43881, "U+00E9">>,
     <<43888, 44002, "U+00E9">>, <<44016, 44025, "U+0660">>,
     <<44032, 55203, "U+00E9">>, <<55216, 55238, "U+00E9">>,
     <<55243, 55291, "U+00E9">>, <<63744, 64109, "U+00E9">>,
     <<64112, 64217, "U+00E9">>, <<64256, 64262, "U+00E9">>,
     <<64275, 64279, "U+00E9">>, <<64285, 64285, "U+00E9">>,
     <<64287, 64296, "U+00E9">>, <<64298, 64310, "U+00E9">>,
     <<64312, 64316, "U+00E9">>, <<64318, 64318, "U+00E9">>,
     <<64320, 64321, "U+00E9">>, <<64323, 64324, "U+00E9">>,
     <<64326, 64433, "U+00E9">>, <<64467, 64829, "U+00E9">>,
     <<64848, 64911, "U+00E9">>, <<64914, 64967, "U+00E9">>,
     <<65008, 65019, "U+00E9">>, <<65136, 65140, "U+00E9">>,
     <<65142, 65276, "U+00E9">>, <<65296, 65305, "U+0660">>,
     <<65313, 65338, "U+00C9">>, <<65345, 65370, "U+00E9">>,
     <<65382, 65470, "U+00E9">>, <<65474, 65479, "U+00E9">>,
     <<65482, 65487, "U+00E9">>, <<65490, 65495, "U+00E9">>,
     <<65498, 65500, "U+00E9">>, <<65536, 65547, "U+00E9">>,
     <<65549, 65574, "U+00E9">>, <<65576, 65594, "U+00E9">>,
     <<65596, 65597, "U+00E9">>, <<65599, 65613, "U+00E9">>,
     <<65616, 65629, "U+00E9">>, <<65664, 65786, "U+00E9">>,
     <<65799, 65843, "U+00E9">>, <<65856, 65912, "U+00E9">>,
     <<65930, 65931, "U+00E9">>, <<66176, 66204, "U+00E9">>,
     <<66208, 66256, "U+00E9">>, <<66273, 66299, "U+00E9">>,
     <<66304, 66339, "U+00E9">>, <<66349, 66378, "U+00E9">>,
     <<66384, 66421, "U+00E9">>, <<66432, 66461, "U+00E9">>,
     <<66464, 66499, "U+00E9">>, <<66504, 66511, "U+00E9">>,
     <<66513, 66517, "U+00E9">>, <<66560, 66599, "U+00C9">>,
     <<66600, 66717, "U+00E9">>, <<66720, 66729, "U+0660">>,
     <<66736, 66771, "U+00C9">>, <<66776, 66811, "U+00E9">>,
     <<66816, 66855, "U+00E9">>, <<66864, 66915, "U+00E9">>,
     <<66928, 66938, "U+00C9">>, <<66940, 66954, "U+00C9">>,
     <<66956, 66962, "U+00C9">>, <<66964, 66965, "U+00C9">>,
     <<66967, 66977, "U+00E9">>, <<66979, 66993, "U+00E9">>,
     <<66995, 67001, "U+00E9">>, <<67003, 67004, "U+00E9">>,
     <<67072, 67382, "U+00E9">>, <<67392, 67413, "U+00E9">>,
     <<67424, 67431, "U+00E9">>, <<67456, 67461, "U+00E9">>,
     <<67463, 67504, "U+00E9">>, <<67506, 67514, "U+00E9">>,
     <<67584, 67589, "U+00E9">>, <<67592, 67592, "U+00E9">>,
     <<67594, 67637, "U+00E9">>, <<67639, 67640, "U+00E9">>,
     <<67644, 67644, "U+00E9">>, <<67647, 67669, "U+00E9">>,
     <<67672, 67702, "U+00E9">>, <<67705, 67742, "U+00E9">>,
     <<67751, 67759, "U+00E9">>, <<67808, 67826, "U+00E9">>,
     <<67828, 67829, "U+00E9">>, <<67835, 67867, "U+00E9">>,
     <<67872, 67897, "U+00E9">>, <<67968, 68023, "U+00E9">>,
     <<68028, 68047, "U+00E9">>, <<68050, 68096, "U+00E9">>,
     <<68112, 68115, "U+00E9">>, <<68117, 68119, "U+00E9">>,
     <<68121, 68149, "U+00E9">>, <<68160, 68163, "U+00B2">>,
     <<68164, 68168, "U+00E9">>, <<68192, 68222, "U+00E9">>,
     <<68224, 68255, "U+00E9">>, <<68288, 68295, "U+00E9">>,
     <<68297, 68324, "U+00E9">>, <<68331, 68335, "U+00E9">>,
     <<68352, 68405, "U+00E9">>, <<68416, 68437, "U+00E9">>,
     <<68440, 68466, "U+00E9">>, <<68472, 68497, "U+00E9">>,
     <<68521, 68527, "U+00E9">>, <<68608, 68680, "U+00E9">>,
     <<68736, 68786, "U+00C9">>, <<68800, 68850, "U+00E9">>,
     <<68858, 68899, "U+00E9">>, <<68912, 68921, "U+0660">>,
     <<69216, 69224, "U+00B2">>, <<69225, 69246, "U+00E9">>,
     <<69248, 69289, "U+00E9">>, <<69296, 69297, "U+00E9">>,
     <<69376, 69415, "U+00E9">>, <<69424, 69445, "U+00E9">>,
     <<69457, 69460, "U+00E9">>, <<69488, 69505, "U+00E9">>,
     <<69552, 69579, "U+00E9">>, <<69600, 69622, "U+00E9">>,
     <<69635, 69687, "U+00E9">>, <<69714, 69722, "U+00B2">>,
     <<69723, 69733, "U+00E9">>, <<69734, 69743, "U+0660">>,
     <<69745, 69746, "U+00E9">>, <<69749, 69749, "U+00E9">>,
     <<69763, 69807, "U+00E9">>, <<69840, 69864, "U+00E9">>,
     <<69872, 69881, "U+0660">>, <<69891, 69926, "U+00E9">>,
     <<69942, 69951, "U+0660">>, <<69956, 69956, "U+00E9">>,
     <<69959, 69959, "U+00E9">>, <<69968, 70002, "U+00E9">>,
     <<70006, 70006, "U+00E9">>, <<70019, 70066, "U+00E9">>,
     <<70081, 70084, "U+00E9">>, <<70096, 70105, "U+0660">>,
     <<70106, 70106, "U+00E9">>, <<70108, 70108, "U+00E9">>,
     <<70113, 70132, "U+00E9">>, <<70144, 70161, "U+00E9">>,
     <<70163, 70187, "U+00E9">>, <<70272, 70278, "U+00E9">>,
     <<70280, 70280, "U+00E9">>, <<70282, 70285, "U+00E9">>,
     <<70287, 70301, "U+00E9">>, <<70303, 70312, "U+00E9">>,
     <<70320, 70366, "U+00E9">>, <<70384, 70393, "U+0660">>,
     <<70405, 70412, "U+00E9">>, <<70415, 70416, "U+00E9">>,
     <<70419, 70440, "U+00E9">>, <<70442, 70448, "U+00E9">>,
     <<70450, 70451, "U+00E9">>, <<70453, 70457, "U+00E9">>,
     <<70461, 70461, "U+00E9">>, <<70480, 70480, "U+00E9">>,
     <<70493, 70497, "U+00E9">>, <<70656, 70708, "U+00E9">>,
     <<70727, 70730, "U+00E9">>, <<70736, 70745, "U+0660">>,
     <<70751, 70753, "U+00E9">>, <<70784, 70831, "U+00E9">>,
     <<70852, 70853, "U+00E9">>, <<70855, 70855, "U+00E9">>,
     <<70864, 70873, "U+0660">>, <<71040, 71086, "U+00E9">>,
     <<71128, 71131, "U+00E9">>, <<71168, 71215, "U+00E9">>,
     <<71236, 71236, "U+00E9">>, <<71248, 71257, "U+0660">>,
     <<71296, 71338, "U+00E9">>, <<71352, 71352, "U+00E9">>,
     <<71360, 71369, "U+0660">>, <<71424, 71450, "U+00E9">>,
     <<71472, 71481, "U+0660">>, <<71482, 71483, "U+00E9">>,
     <<71488, 71494, "U+00E9">>, <<71680, 71723, "U+00E9">>,
     <<71840, 71871, "U+00C9">>, <<71872, 71903, "U+00E9">>,
     <<71904, 71913, "U+0660">>, <<71914, 71922, "U+00E9">>,
     <<71935, 71942, "U+00E9">>, <<71945, 71945, "U+00E9">>,
     <<71948, 71955, "U+00E9">>, <<71957, 71958, "U+00E9">>,
     <<71960, 71983, "U+00E9">>, <<71999, 71999, "U+00E9">>,
     <<72001, 72001, "U+00E9">>, <<72016, 72025, "U+0660">>,
     <<72096, 72103, "U+00E9">>, <<72106, 72144, "U+00E9">>,
     <<72161, 72161, "U+00E9">>, <<72163, 72163, "U+00E9">>,
     <<72192, 72192, "U+00E9">>, <<72203, 72242, "U+00E9">>,
     <<72250, 72250, "U+00E9">>, <<72272, 72272, "U+00E9">>,
     <<72284, 72329, "U+00E9">>, <<72349, 72349, "U+00E9">>,
     <<72368, 72440, "U+00E9">>, <<72704, 72712, "U+00E9">>,
     <<72714, 72750, "U+00E9">>, <<72768, 72768, "U+00E9">>,
     <<72784, 72793, "U+0660">>, <<72794, 72812, "U+00E9">>,
     <<72818, 72847, "U+00E9">>, <<72960, 72966, "U+00E9">>,
     <<72968, 72969, "U+00E9">>, <<72971, 73008, "U+00E9">>,
     <<73030, 73030, "U+00E9">>, <<73040, 73049, "U+0660">>,
     <<73056, 73061, "U+00E9">>, <<73063, 73064, "U+00E9">>,
     <<73066, 73097, "U+00E9">>, <<73112, 73112, "U+00E9">>,
     <<73120, 73129, "U+0660">>, <<73440, 73458, "U+00E9">>,
     <<73648, 73648, "U+00E9">>, <<73664, 73684, "U+00E9">>,
     <<73728, 74649, "U+00E9">>, <<74752, 74862, "U+00E9">>,
     <<74880, 75075, "U+00E9">>, <<77712, 77808, "U+00E9">>,
     <<77824, 78894, "U+00E9">>, <<82944, 83526, "U+00E9">>,
     <<92160, 92728, "U+00E9">>, <<92736, 92766, "U+00E9">>,
     <<92768, 92777, "U+0660">>, <<92784, 92862, "U+00E9">>,
     <<92864, 92873, "U+0660">>, <<92880, 92909, "U+00E9">>,
     <<92928, 92975, "U+00E9">>, <<92992, 92995, "U+00E9">>,
     <<93008, 93017, "U+0660">>, <<93019, 93025, "U+00E9">>,
     <<93027, 93047, "U+00E9">>, <<93053, 93071, "U+00E9">>,
     <<93760, 93791, "U+00C9">>, <<93792, 93846, "U+00E9">>,
     <<93952, 94026, "U+00E9">>, <<94032, 94032, "U+00E9">>,
     <<94099, 94111, "U+00E9">>, <<94176, 94177, "U+00E9">>,
     <<94179, 94179, "U+00E9">>, <<94208, 100343, "U+00E9">>,
     <<100352, 101589, "U+00E9">>, <<101632, 101640, "U+00E9">>,
     <<110576, 110579, "U+00E9">>, <<110581, 110587, "U+00E9">>,
     <<110589, 110590, "U+00E9">>, <<110592, 110882, "U+00E9">>,
     <<110928, 110930, "U+00E9">>, <<110948, 110951, "U+00E9">>,
     <<110960, 111355, "U+00E9">>, <<113664, 113770, "U+00E9">>,
     <<113776, 113788, "U+00E9">>, <<113792, 113800, "U+00E9">>,
     <<113808, 113817, "U+00E9">>, <<119520, 119539, "U+00E9">>,
     <<119648, 119672, "U+00E9">>, <<119808, 119833, "U+03D2">>,
     <<119834, 119859, "U+00E9">>, <<119860, 119885, "U+03D2">>,
     <<119886, 119892, "U+00E9">>, <<119894, 119911, "U+00E9">>,
     <<119912, 119937, "U+03D2">>, <<119938, 119963, "U+00E9">>,
     <<119964, 119964, "U+03D2">>, <<119966, 119967, "U+03D2">>,
     <<119970, 119970, "U+03D2">>, <<119973, 119974, "U+03D2">>,
     <<119977, 119980, "U+03D2">>, <<119982, 119989, "U+03D2">>,
     <<119990, 119993, "U+00E9">>, <<119995, 119995, "U+00E9">>,
     <<119997, 120003, "U+00E9">>, <<120005, 120015, "U+00E9">>,
     <<120016, 120041, "U+03D2">>, <<120042, 120067, "U+00E9">>,
     <<120068, 120069, "U+03D2">>, <<120071, 120074, "U+03D2">>,
     <<120077, 120084, "U+03D2">>, <<120086, 120092, "U+03D2">>,
     <<120094, 120119, "U+00E9">>, <<120120, 120121, "U+03D2">>,
     <<120123, 120126, "U+03D2">>, <<120128, 120132, "U+03D2">>,
     <<120134, 120134, "U+03D2">>, <<120138, 120144, "U+03D2">>,
     <<120146, 120171, "U+00E9">>, <<120172, 120197, "U+03D2">>,
     <<120198, 120223, "U+00E9">>, <<120224, 120249, "U+03D2">>,
     <<120250, 120275, "U+00E9">>, <<120276, 120301, "U+03D2">>,
     <<120302, 120327, "U+00E9">>, <<120328, 120353, "U+03D2">>,
     <<120354, 120379, "U+00E9">>, <<120380, 120405, "U+03D2">>,
     <<120406, 120431, "U+00E9">>, <<120432, 120457, "U+03D2">>,
     <<120458, 120485, "U+00E9">>, <<120488, 120512, "U+03D2">>,
     <<120514, 120538, "U+00E9">>, <<120540, 120545, "U+00E9">>,
     <<120546, 120570, "U+03D2">>, <<120572, 120596, "U+00E9">>,
     <<120598, 120603, "U+00E9">>, <<120604, 120628, "U+03D2">>,
     <<120630, 120654, "U+00E9">>, <<120656, 120661, "U+00E9">>,
     <<120662, 120686, "U+03D2">>, <<120688, 120712, "U+00E9">>,
     <<120714, 120719, "U+00E9">>, <<120720, 120744, "U+03D2">>,
     <<120746, 120770, "U+00E9">>, <<120772, 120777, "U+00E9">>,
     <<120778, 120778, "U+03D2">>, <<120779, 120779, "U+00E9">>,
     <<120782, 120831, "U+0660">>, <<122624, 122654, "U+00E9">>,
     <<123136, 123180, "U+00E9">>, <<123191, 123197, "U+00E9">>,
     <<123200, 123209, "U+0660">>, <<123214, 123214, "U+00E9">>,
     <<123536, 123565, "U+00E9">>, <<123584, 123627, "U+00E9">>,
     <<123632, 123641, "U+0660">>, <<124896, 124902, "U+00E9">>,
     <<124904, 124907, "U+00E9">>, <<124909, 124910, "U+00E9">>,
     <<124912, 124926, "U+00E9">>, <<124928, 125124, "U+00E9">>,
     <<125127, 125135, "U+00E9">>, <<125184, 125217, "U+00C9">>,
     <<125218, 125251, "U+00E9">>, <<125259, 125259, "U+00E9">>,
     <<125264, 125273, "U+0660">>, <<126065, 126123, "U+00E9">>,
     <<126125, 126127, "U+00E9">>, <<126129, 126132, "U+00E9">>,
     <<126209, 126253, "U+00E9">>, <<126255, 126269, "U+00E9">>,
     <<126464, 126467, "U+00E9">>, <<126469, 126495, "U+00E9">>,
     <<126497, 126498, "U+00E9">>, <<126500, 126500, "U+00E9">>,
     <<126503, 126503, "U+00E9">>, <<126505, 126514, "U+00E9">>,
     <<126516, 126519, "U+00E9">>, <<126521, 126521, "U+00E9">>,
     <<126523, 126523, "U+00E9">>, <<126530, 126530, "U+00E9">>,
     <<126535, 126535, "U+00E9">>, <<126537, 126537, "U+00E9">>,
     <<126539, 126539, "U+00E9">>, <<126541, 126543, "U+00E9">>,
     <<126545, 126546, "U+00E9">>, <<126548, 126548, "U+00E9">>,
     <<126551, 126551, "U+00E9">>, <<126553, 126553, "U+00E9">>,
     <<126555, 126555, "U+00E9">>, <<126557, 126557, "U+00E9">>,
     <<126559, 126559, "U+00E9">>, <<126561, 126562, "U+00E9">>,
     <<126564, 126564, "U+00E9">>, <<126567, 126570, "U+00E9">>,
     <<126572, 126578, "U+00E9">>, <<126580, 126583, "U+00E9">>,
     <<126585, 126588, "U+00E9">>, <<126590, 126590, "U+00E9">>,
     <<126592, 126601, "U+00E9">>, <<126603, 126619, "U+00E9">>,
     <<126625, 126627, "U+00E9">>, <<126629, 126633, "U+00E9">>,
     <<126635, 126651, "U+00E9">>, <<127232, 127242, "U+00B2">>,
     <<127243, 127244, "U+00E9">>, <<127280, 127305, "U+1F130">>,
     <<127312, 127337, "U+1F130">>, <<127344, 127369, "U+1F130">>,
     <<130032, 130041, "U+0660">>, <<131072, 173791, "U+00E9">>,
     <<173824, 177976, "U+00E9">>, <<177984, 178205, "U+00E9">>,
     <<178208, 183969, "U+00E9">>, <<183984, 191456, "U+00E9">>,
     <<194560, 195101, "U+00E9">>, <<196608, 201546, "U+00E9">> >>

\* The tokens of the classes of which a property holds
NonAscii(property) ==
  {NonAsciiClasses[i].token :
     i \in {j \in 1..Len(NonAsciiClasses) : NonAsciiClasses[j][property]}}

\* The characters that occur in the strings of the model
AllChars ==
  AsciiChars \cup
  {NonAsciiClasses[i].token : i \in 1..Len(NonAsciiClasses)}

\* str.isupper(), str.isdigit() and \d on one character
isupper == UpperChars \cup NonAscii("upper")

isdigit == DigitChars \cup NonAscii("digit")

DecimalClass == DigitChars \cup NonAscii("decimal")

\* An assignment `x = v` followed by the statements F that read x: v is
\* computed once and F sees its value
With(v, F(_)) == CHOOSE out \in {F(x) : x \in {v}} : TRUE

\* What a call gives: the value it returns, or the exception it raises
Returned(value) == [raised |-> "", value |-> value]

Raised(exception) == [raised |-> exception, value |-> <<>>]

\* An exception raised with a message
RaisedWith(exception, message) == [raised |-> exception, value |-> message]

\* chr(n) and ord(c); ord is taken of ASCII characters only
chr(n) ==
  IF n < 128 THEN AsciiSeq[n + 1]
  ELSE With(CodePointRanges, LAMBDA runs :
         IF \E i \in 1..Len(runs) : n >= runs[i][1] /\ n <= runs[i][2]
           THEN runs[CHOOSE i \in 1..Len(runs) :
                       n >= runs[i][1] /\ n <= runs[i][2]][3]
           ELSE OtherChar)

ord(c) == (CHOOSE i \in 1..128 : AsciiSeq[i] = c) - 1

\* str.lower() on one character; the result of one character may have two
lower_char(c) ==
  IF c \in UpperChars
    THEN <<LowerSeq[CHOOSE i \in 1..26 : UpperSeq[i] = c]>>
  ELSE IF c \in AsciiChars THEN <<c>>
  ELSE NonAsciiClasses[CHOOSE i \in 1..Len(NonAsciiClasses) :
                         NonAsciiClasses[i].token = c].lower

\* str.lower()
RECURSIVE lower(_)
lower(s) ==
  IF s = <<>> THEN <<>> ELSE lower_char(Head(s)) \o lower(Tail(s))

\* s[a:b] of Python for 0 <= a, b (0-based, end exclusive)
Slice(s, a, b) ==
  IF b > Len(s)
    THEN (IF a >= Len(s) THEN <<>> ELSE SubSeq(s, a + 1, Len(s)))
    ELSE (IF a >= b THEN <<>> ELSE SubSeq(s, a + 1, b))

\* s.find(c) >= 0 for a one-character needle
Contains(s, c) == \E i \in 1..Len(s) : s[i] = c

\* s.count(c) for a one-character needle
RECURSIVE CountChar(_, _)
CountChar(s, c) ==
  IF s = <<>> THEN 0
  ELSE (IF Head(s) = c THEN 1 ELSE 0) + CountChar(Tail(s), c)

\* sep.join(parts)
RECURSIVE Join(_, _)
Join(parts, sep) ==
  IF parts = <<>> THEN <<>>
  ELSE IF Len(parts) = 1 THEN parts[1]
  ELSE parts[1] \o sep \o Join(Tail(parts), sep)

\* s.split(c) for a one-character separator: the fields between separators,
\* empty fields kept
RECURSIVE SplitOn(_, _)
SplitOn(s, c) ==
  IF ~Contains(s, c) THEN <<s>>
  ELSE LET i == CHOOSE j \in 1..Len(s) :
                  s[j] = c /\ \A k \in 1..(j - 1) : s[k] # c
       IN  <<SubSeq(s, 1, i - 1)>> \o SplitOn(SubSeq(s, i + 1, Len(s)), c)

\* ------------------------------------------------------------------------
\* util.py
\* ------------------------------------------------------------------------

MIN_SPLIT_LEN == 5

\* flatten: list(itertools.chain(*lst_lst))
RECURSIVE flatten(_)
flatten(lst_lst) ==
  IF lst_lst = <<>> THEN <<>>
  ELSE Head(lst_lst) \o flatten(Tail(lst_lst))

flatten_twice(lst_lst_lst) == flatten(flatten(lst_lst_lst))

\* wordninja.split, the dictionary segmentation that word_splitter calls
\* (library code, wordninja 2.0.0).  The library reads its word list from a
\* data file that is not part of the repository and gives the word of rank
\* r the cost log((r + 1) * log(N)).  WordCostTable is an excerpt of that
\* dictionary: the words of the repository's tests and docstrings and the
\* single letters, each with a cost of the size the formula gives a word of
\* its frequency, in tenths, so that a frequent word costs less than a rare
\* one and a word less than its letters.  A string outside the table costs
\* Inf (9e999), as a string outside the library's dictionary does.
WordCostTable ==
  << <<<<"t", "h", "e">>, 25>>,
     <<<<"a">>, 43>>,
     <<<<"w", "i", "t", "h">>, 51>>,
     <<<<"s", "o", "m", "e">>, 66>>,
     <<<<"p", "a", "r", "t">>, 71>>,
     <<<<"m", "e", "m", "b", "e", "r", "s">>, 78>>,
     <<<<"l", "o", "n", "g">>, 82>>,
     <<<<"l", "i", "b", "r", "a", "r", "y">>, 87>>,
     <<<<"s", "i", "t", "e">>, 89>>,
     <<<<"p", "a", "g", "e">>, 90>>,
     <<<<"v", "a", "l", "u", "e">>, 90>>,
     <<<<"w", "o", "r", "d">>, 91>>,
     <<<<"t", "e", "s", "t">>, 93>>,
     <<<<"c", "i", "t", "i", "e", "s">>, 94>>,
     <<<<"l", "e", "n", "g", "t", "h">>, 96>>,
     <<<<"n", "e", "t">>, 98>>,
     <<<<"m", "e", "d", "i", "u", "m">>, 103>>,
     <<<<"p", "a", "t", "h">>, 105>>,
     <<<<"d", "o", "m", "a", "i", "n">>, 108>>,
     <<<<"m", "u", "l", "t", "i">>, 110>>,
     <<<<"m", "e", "r", "i", "t">>, 112>>,
     <<<<"h", "t", "t", "p">>, 113>>,
     <<<<"h", "t", "m", "l">>, 114>>,
     <<<<"v", "a", "l">>, 116>>,
     <<<<"b", "e", "t">>, 116>>,
     <<<<"w", "e", "i", "r", "d">>, 119>>,
     <<<<"g", "e", "o">>, 121>>,
     <<<<"m", "b">>, 109>>,
     <<<<"e", "n">>, 95>>,
     <<<<"a", "d", "c">>, 128>>,
     <<<<"b", "r", "a", "u", "n">>, 124>>,
     <<<<"t", "r", "i", "p", "o", "d">>, 126>>,
     <<<<"p", "a", "r", "a", "m">>, 132>>,
     <<<<"e", "c", "h">>, 134>>,
     <<<<"b">>, 77>>,
     <<<<"c">>, 74>>,
     <<<<"d">>, 78>>,
     <<<<"e">>, 76>>,
     <<<<"f">>, 84>>,
     <<<<"g">>, 85>>,
     <<<<"h">>, 86>>,
     <<<<"i">>, 52>>,
     <<<<"j">>, 87>>,
     <<<<"k">>, 87>>,
     <<<<"l">>, 84>>,
     <<<<"m">>, 79>>,
     <<<<"n">>, 80>>,
     <<<<"o">>, 85>>,
     <<<<"p">>, 82>>,
     <<<<"q">>, 95>>,
     <<<<"r">>, 81>>,
     <<<<"s">>, 70>>,
     <<<<"t">>, 81>>,
     <<<<"u">>, 89>>,
     <<<<"v">>, 88>>,
     <<<<"w">>, 88>>,
     <<<<"x">>, 83>>,
     <<<<"y">>, 90>>,
     <<<<"z">>, 93>> >>

Inf == 100000

wordninja_maxword ==
  CHOOSE n \in 1..64 :
    /\ \E i \in 1..Len(WordCostTable) : Len(WordCostTable[i][1]) = n
    /\ \A i \in 1..Len(WordCostTable) : Len(WordCostTable[i][1]) <= n

\* self._wordcost.get(w, 9e999)
wordcost(w) ==
  IF \E i \in 1..Len(WordCostTable) : WordCostTable[i][1] = w
    THEN WordCostTable[CHOOSE i \in 1..Len(WordCostTable) :
                         WordCostTable[i][1] = w][2]
    ELSE Inf

\* float addition where 9e999 is infinity
AddCost(c, d) == IF c >= Inf \/ d >= Inf THEN Inf ELSE c + d

\* min() of a set of (cost, length) tuples, compared as Python compares
\* tuples
MinPair(pairs) ==
  CHOOSE p \in pairs :
    \A q \in pairs : p[1] < q[1] \/ (p[1] = q[1] /\ p[2] <= q[2])

\* best_match(i): cost is the array cost[0..i-1], held as cost[1..i]
best_match(s, cost, i) ==
  LET lo == IF i - wordninja_maxword > 0 THEN i - wordninja_maxword ELSE 0
  IN  MinPair({ <<AddCost(cost[i - k],
                          wordcost(lower(Slice(s, i - k - 1, i)))),
                  k + 1>> : k \in 0..(i - lo - 1) })

\* the loop that builds the cost array
RECURSIVE wordninja_cost(_, _, _)
wordninja_cost(s, cost, i) ==
  IF i > Len(s) THEN cost
  ELSE wordninja_cost(s, Append(cost, best_match(s, cost, i)[1]), i + 1)

\* the backtracking loop; out is in the order the loop appends (right to
\* left)
RECURSIVE wordninja_backtrack(_, _, _, _)
wordninja_backtrack(s, cost, i, out) ==
  IF i <= 0 THEN out
  ELSE
    LET k     == best_match(s, cost, i)[2]
        tok   == Slice(s, i - k, i)
        last  == out[Len(out)]
        merge == /\ tok # <<"'">>
                 /\ Len(out) > 0
                 /\ \/ last = <<"'", "s">>
                    \/ (s[i] \in isdigit /\ last[1] \in isdigit)
        out2  == IF merge
                   THEN [out EXCEPT ![Len(out)] = tok \o last]
                   ELSE Append(out, tok)
    IN  wordninja_backtrack(s, cost, i - k, out2)

Reverse(q) == [i \in 1..Len(q) |-> q[Len(q) + 1 - i]]

\* LanguageModel._split
wordninja_split_one(s) ==
  Reverse(wordninja_backtrack(s, wordninja_cost(s, <<0>>, 1), Len(s), <<>>))

WordninjaChars == AlnumChars \cup {"'"}

\* _SPLIT_RE.split(s) for _SPLIT_RE = [^a-zA-Z0-9']+ : the fields between
\* maximal runs of separator characters
RECURSIVE wordninja_re_split(_, _)
wordninja_re_split(s, field) ==
  IF s = <<>> THEN <<field>>
  ELSE IF Head(s) \in WordninjaChars
    THEN wordninja_re_split(Tail(s), Append(field, Head(s)))
  ELSE IF Len(s) > 1 /\ s[2] \notin WordninjaChars
    THEN wordninja_re_split(Tail(s), field)
  ELSE <<field>> \o wordninja_re_split(Tail(s), <<>>)

\* LanguageModel.split that segments the first field only
wordninja_split_first_field(s) ==
  wordninja_split_one(wordninja_re_split(s, <<>>)[1])

\* LanguageModel.split
wordninja_split(s) ==
  LET pieces == wordninja_re_split(s, <<>>)
  IN  flatten([i \in 1..Len(pieces) |-> wordninja_split_one(pieces[i])])

\* word_splitter with the default min_split_len
word_splitter(text) ==
  IF text # <<>>
    THEN (IF Len(text) >= MIN_SPLIT_LEN THEN wordninja_split(text)
          ELSE <<text>>)
    ELSE <<>>

\* ------------------------------------------------------------------------
\* url_tokenizer.py: url_html_decoder
\* ------------------------------------------------------------------------

HexChars == DigitChars \cup {"a", "b", "c", "d", "e", "f",
                             "A", "B", "C", "D", "E", "F"}

\* Value of a hexadecimal digit
digit_value(c) ==
  IF c \in DigitChars THEN ord(c) - 48 ELSE ord(lower_char(c)[1]) - 87

\* Length of the longest prefix of s made of characters of cls, at most max
RunLen(s, cls, max) ==
  With(IF Len(s) < max THEN Len(s) ELSE max, LAMBDA top :
    IF \A i \in 1..top : s[i] \in cls THEN top
    ELSE (CHOOSE i \in 1..top :
            s[i] \notin cls /\ \A j \in 1..(i - 1) : s[j] \in cls) - 1)

\* urllib.parse.unquote_to_bytes on an ASCII string, taken piece by piece
\* at its '%': every %XX with two hex digits becomes the byte XX, every
\* other character its own byte
RECURSIVE unquote_to_bytes(_)
unquote_to_bytes(s) ==
  IF s = <<>> THEN <<>>
  ELSE IF Head(s) = "%" /\ Len(s) >= 3
          /\ s[2] \in HexChars /\ s[3] \in HexChars
    THEN <<16 * digit_value(s[2]) + digit_value(s[3])>>
           \o unquote_to_bytes(SubSeq(s, 4, Len(s)))
  ELSE IF Head(s) = "%"
    THEN <<ord(Head(s))>> \o unquote_to_bytes(Tail(s))
  ELSE With(RunLen(s, AsciiChars \ {"%"}, Len(s)), LAMBDA n :
         [i \in 1..n |-> ord(s[i])]
           \o unquote_to_bytes(SubSeq(s, n + 1, Len(s))))

\* The ranges of the bytes that may follow the lead byte h in well-formed
\* UTF-8, in order; none for a byte that cannot lead
utf8_ranges(h) ==
  IF h \in 194..223 THEN << <<128, 191>> >>
  ELSE IF h = 224 THEN << <<160, 191>>, <<128, 191>> >>
  ELSE IF h \in 225..236 \/ h \in 238..239
    THEN << <<128, 191>>, <<128, 191>> >>
  ELSE IF h = 237 THEN << <<128, 159>>, <<128, 191>> >>
  ELSE IF h = 240 THEN << <<144, 191>>, <<128, 191>>, <<128, 191>> >>
  ELSE IF h \in 241..243
    THEN << <<128, 191>>, <<128, 191>>, <<128, 191>> >>
  ELSE IF h = 244 THEN << <<128, 143>>, <<128, 191>>, <<128, 191>> >>
  ELSE <<>>

\* Number of bytes at the head of b that fit the ranges r, in order
RECURSIVE utf8_matched(_, _)
utf8_matched(b, r) ==
  IF b = <<>> \/ r = <<>> \/ Head(b) < Head(r)[1] \/ Head(b) > Head(r)[2]
    THEN 0
    ELSE 1 + utf8_matched(Tail(b), Tail(r))

\* The code point that a well-formed UTF-8 sequence of two, three or four
\* bytes encodes
code_point(b) ==
  IF Len(b) = 2 THEN (b[1] - 192) * 64 + (b[2] - 128)
  ELSE IF Len(b) = 3
    THEN (b[1] - 224) * 4096 + (b[2] - 128) * 64 + (b[3] - 128)
  ELSE (b[1] - 240) * 262144 + (b[2] - 128) * 4096 + (b[3] - 128) * 64
         + (b[4] - 128)

\* bytes.decode('utf-8', 'replace'): an ASCII byte is its character (a run
\* of them is taken at once); a well-formed sequence of a lead byte and
\* its followers is the character of its code point; an ill-formed
\* sequence, as far as it goes, is U+FFFD
RECURSIVE decode(_)
decode(b) ==
  IF b = <<>> THEN <<>>
  ELSE IF Head(b) < 128
    THEN With(RunLen(b, 0..127, Len(b)), LAMBDA n :
           [i \in 1..n |-> AsciiSeq[b[i] + 1]]
             \o decode(SubSeq(b, n + 1, Len(b))))
  ELSE
    LET r == utf8_ranges(Head(b))
        m == utf8_matched(Tail(b), r)
    IN  <<IF r # <<>> /\ m = Len(r)
            THEN chr(code_point(SubSeq(b, 1, m + 1)))
            ELSE OtherChar>>
          \o decode(SubSeq(b, m + 2, Len(b)))

\* Lookup in a sequence of (key, value) pairs
HasKey(table, key) == \E i \in 1..Len(table) : table[i][1] = key

Lookup(table, key) ==
  table[CHOOSE i \in 1..Len(table) : table[i][1] = key][2]

\* urllib.parse.unquote: a string without '%' is returned as it is; else
\* each run of ASCII characters is turned into bytes and decoded, and the
\* characters outside ASCII between the runs are kept
RECURSIVE unquote(_)
unquote(s) ==
  IF ~ (\E i \in 1..Len(s) : s[i] = "%") THEN s
  ELSE IF Head(s) \notin AsciiChars THEN <<Head(s)>> \o unquote(Tail(s))
  ELSE decode(unquote_to_bytes(SubSeq(s, 1, RunLen(s, AsciiChars, Len(s)))))
         \o unquote(SubSeq(s, RunLen(s, AsciiChars, Len(s)) + 1, Len(s)))

\* html.entities.html5: the names with their ';' and the legacy names that
\* are recognised without one, each with its text
Html5Table ==
  << <<<<"A", "E", "l", "i", "g">>, <<"U+00C9">>>>,
     <<<<"A", "E", "l", "i", "g", ";">>, <<"U+00C9">>>>,
     <<<<"A", "M", "P">>, <<"&">>>>, <<<<"A", "M", "P", ";">>, <<"&">>>>,
     <<<<"A", "a", "c", "u", "t", "e">>, <<"U+00C9">>>>,
     <<<<"A", "a", "c", "u", "t", "e", ";">>, <<"U+00C9">>>>,
     <<<<"A", "b", "r", "e", "v", "e", ";">>, <<"U+00C9">>>>,
     <<<<"A", "c", "i", "r", "c">>, <<"U+00C9">>>>,
     <<<<"A", "c", "i", "r", "c", ";">>, <<"U+00C9">>>>,
     <<<<"A", "c", "y", ";">>, <<"U+00C9">>>>,
     <<<<"A", "f", "r", ";">>, <<"U+03D2">>>>,
     <<<<"A", "g", "r", "a", "v", "e">>, <<"U+00C9">>>>,
     <<<<"A", "g", "r", "a", "v", "e", ";">>, <<"U+00C9">>>>,
     <<<<"A", "l", "p", "h", "a", ";">>, <<"U+00C9">>>>,
     <<<<"A", "m", "a", "c", "r", ";">>, <<"U+00C9">>>>,
     <<<<"A", "n", "d", ";">>, <<"U+">>>>,
     <<<<"A", "o", "g", "o", "n", ";">>, <<"U+00C9">>>>,
     <<<<"A", "o", "p", "f", ";">>, <<"U+03D2">>>>,
     <<<<"A", "p", "p", "l", "y", "F", "u", "n", "c", "t", "i", "o", "n", ";">>, <<"U+">>>>,
     <<<<"A", "r", "i", "n", "g">>, <<"U+00C9">>>>,
     <<<<"A", "r", "i", "n", "g", ";">>, <<"U+00C9">>>>,
     <<<<"A", "s", "c", "r", ";">>, <<"U+03D2">>>>,
     <<<<"A", "s", "s", "i", "g", "n", ";">>, <<"U+">>>>,
     <<<<"A", "t", "i", "l", "d", "e">>, <<"U+00C9">>>>,
     <<<<"A", "t", "i", "l", "d", "e", ";">>, <<"U+00C9">>>>,
     <<<<"A", "u", "m", "l">>, <<"U+00C9">>>>,
     <<<<"A", "u", "m", "l", ";">>, <<"U+00C9">>>>,
     <<<<"B", "a", "c", "k", "s", "l", "a", "s", "h", ";">>, <<"U+">>>>,
     <<<<"B", "a", "r", "v", ";">>, <<"U+">>>>,
     <<<<"B", "a", "r", "w", "e", "d", ";">>, <<"U+">>>>,
     <<<<"B", "c", "y", ";">>, <<"U+00C9">>>>,
     <<<<"B", "e", "c", "a", "u", "s", "e", ";">>, <<"U+">>>>,
     <<<<"B", "e", "r", "n", "o", "u", "l", "l", "i", "s", ";">>, <<"U+03D2">>>>,
     <<<<"B", "e", "t", "a", ";">>, <<"U+00C9">>>>,
     <<<<"B", "f", "r", ";">>, <<"U+03D2">>>>,
     <<<<"B", "o", "p", "f", ";">>, <<"U+03D2">>>>,
     <<<<"B", "r", "e", "v", "e", ";">>, <<"U+">>>>,
     <<<<"B", "s", "c", "r", ";">>, <<"U+03D2">>>>,
     <<<<"B", "u", "m", "p", "e", "q", ";">>, <<"U+">>>>,
     <<<<"C", "H", "c", "y", ";">>, <<"U+00C9">>>>,
     <<<<"C", "O", "P", "Y">>, <<"U+">>>>,
     <<<<"C", "O", "P", "Y", ";">>, <<"U+">>>>,
     <<<<"C", "a", "c", "u", "t", "e", ";">>, <<"U+00C9">>>>,
     <<<<"C", "a", "p", ";">>, <<"U+">>>>,
     <<<<"C", "a", "p", "i", "t", "a", "l", "D", "i", "f", "f", "e", "r", "e", "n", "t", "i", "a", "l", "D", ";">>, <<"U+03D2">>>>,
     <<<<"C", "a", "y", "l", "e", "y", "s", ";">>, <<"U+03D2">>>>,
     <<<<"C", "c", "a", "r", "o", "n", ";">>, <<"U+00C9">>>>,
     <<<<"C", "c", "e", "d", "i", "l">>, <<"U+00C9">>>>,
     <<<<"C", "c", "e", "d", "i", "l", ";">>, <<"U+00C9">>>>,
     <<<<"C", "c", "i", "r", "c", ";">>, <<"U+00C9">>>>,
     <<<<"C", "c", "o", "n", "i", "n", "t", ";">>, <<"U+">>>>,
     <<<<"C", "d", "o", "t", ";">>, <<"U+00C9">>>>,
     <<<<"C", "e", "d", "i", "l", "l", "a", ";">>, <<"U+">>>>,
     <<<<"C", "e", "n", "t", "e", "r", "D", "o", "t", ";">>, <<"U+">>>>,
     <<<<"C", "f", "r", ";">>, <<"U+03D2">>>>,
     <<<<"C", "h", "i", ";">>, <<"U+00C9">>>>,
     <<<<"C", "i", "r", "c", "l", "e", "D", "o", "t", ";">>, <<"U+">>>>,
     <<<<"C", "i", "r", "c", "l", "e", "M", "i", "n", "u", "s", ";">>, <<"U+">>>>,
     <<<<"C", "i", "r", "c", "l", "e", "P", "l", "u", "s", ";">>, <<"U+">>>>,
     <<<<"C", "i", "r", "c", "l", "e", "T", "i", "m", "e", "s", ";">>, <<"U+">>>>,
     <<<<"C", "l", "o", "c", "k", "w", "i", "s", "e", "C", "o", "n", "t", "o", "u", "r", "I", "n", "t", "e", "g", "r", "a", "l", ";">>, <<"U+">>>>,
     <<<<"C", "l", "o", "s", "e", "C", "u", "r", "l", "y", "D", "o", "u", "b", "l", "e", "Q", "u", "o", "t", "e", ";">>, <<"U+">>>>,
     <<<<"C", "l", "o", "s", "e", "C", "u", "r", "l", "y", "Q", "u", "o", "t", "e", ";">>, <<"U+">>>>,
     <<<<"C", "o", "l", "o", "n", ";">>, <<"U+">>>>,
     <<<<"C", "o", "l", "o", "n", "e", ";">>, <<"U+">>>>,
     <<<<"C", "o", "n", "g", "r", "u", "e", "n", "t", ";">>, <<"U+">>>>,
     <<<<"C", "o", "n", "i", "n", "t", ";">>, <<"U+">>>>,
     <<<<"C", "o", "n", "t", "o", "u", "r", "I", "n", "t", "e", "g", "r", "a", "l", ";">>, <<"U+">>>>,
     <<<<"C", "o", "p", "f", ";">>, <<"U+03D2">>>>,
     <<<<"C", "o", "p", "r", "o", "d", "u", "c", "t", ";">>, <<"U+">>>>,
     <<<<"C", "o", "u", "n", "t", "e", "r", "C", "l", "o", "c", "k", "w", "i", "s", "e", "C", "o", "n", "t", "o", "u", "r", "I", "n", "t", "e", "g", "r", "a", "l", ";">>, <<"U+">>>>,
     <<<<"C", "r", "o", "s", "s", ";">>, <<"U+">>>>,
     <<<<"C", "s", "c", "r", ";">>, <<"U+03D2">>>>,
     <<<<"C", "u", "p", ";">>, <<"U+">>>>,
     <<<<"C", "u", "p", "C", "a", "p", ";">>, <<"U+">>>>,
     <<<<"D", "D", ";">>, <<"U+03D2">>>>,
     <<<<"D", "D", "o", "t", "r", "a", "h", "d", ";">>, <<"U+">>>>,
     <<<<"D", "J", "c", "y", ";">>, <<"U+00C9">>>>,
     <<<<"D", "S", "c", "y", ";">>, <<"U+00C9">>>>,
     <<<<"D", "Z", "c", "y", ";">>, <<"U+00C9">>>>,
     <<<<"D", "a", "g", "g", "e", "r", ";">>, <<"U+">>>>,
     <<<<"D", "a", "r", "r", ";">>, <<"U+">>>>,
     <<<<"D", "a", "s", "h", "v", ";">>, <<"U+">>>>,
     <<<<"D", "c", "a", "r", "o", "n", ";">>, <<"U+00C9">>>>,
     <<<<"D", "c", "y", ";">>, <<"U+00C9">>>>,
     <<<<"D", "e", "l", ";">>, <<"U+">>>>,
     <<<<"D", "e", "l", "t", "a", ";">>, <<"U+00C9">>>>,
     <<<<"D", "f", "r", ";">>, <<"U+03D2">>>>,
     <<<<"D", "i", "a", "c", "r", "i", "t", "i", "c", "a", "l", "A", "c", "u", "t", "e", ";">>, <<"U+">>>>,
     <<<<"D", "i", "a", "c", "r", "i", "t", "i", "c", "a", "l", "D", "o", "t", ";">>, <<"U+">>>>,
     <<<<"D", "i", "a", "c", "r", "i", "t", "i", "c", "a", "l", "D", "o", "u", "b", "l", "e", "A", "c", "u", "t", "e", ";">>, <<"U+">>>>,
     <<<<"D", "i", "a", "c", "r", "i", "t", "i", "c", "a", "l", "G", "r", "a", "v", "e", ";">>, <<"\\x60">>>>,
     <<<<"D", "i", "a", "c", "r", "i", "t", "i", "c", "a", "l", "T", "i", "l", "d", "e", ";">>, <<"U+">>>>,
     <<<<"D", "i", "a", "m", "o", "n", "d", ";">>, <<"U+">>>>,
     <<<<"D", "i", "f", "f", "e", "r", "e", "n", "t", "i", "a", "l", "D", ";">>, <<"U+00E9">>>>,
     <<<<"D", "o", "p", "f", ";">>, <<"U+03D2">>>>,
     <<<<"D", "o", "t", ";">>, <<"U+">>>>,
     <<<<"D", "o", "t", "D", "o", "t", ";">>, <<"U+">>>>,
     <<<<"D", "o", "t", "E", "q", "u", "a", "l", ";">>, <<"U+">>>>,
     <<<<"D", "o", "u", "b", "l", "e", "C", "o", "n", "t", "o", "u", "r", "I", "n", "t", "e", "g", "r", "a", "l", ";">>, <<"U+">>>>,
     <<<<"D", "o", "u", "b", "l", "e", "D", "o", "t", ";">>, <<"U+">>>>,
     <<<<"D", "o", "u", "b", "l", "e", "D", "o", "w", "n", "A", "r", "r", "o", "w", ";">>, <<"U+">>>>,
     <<<<"D", "o", "u", "b", "l", "e", "L", "e", "f", "t", "A", "r", "r", "o", "w", ";">>, <<"U+">>>>,
     <<<<"D", "o", "u", "b", "l", "e", "L", "e", "f", "t", "R", "i", "g", "h", "t", "A", "r", "r", "o", "w", ";">>, <<"U+">>>>,
     <<<<"D", "o", "u", "b", "l", "e", "L", "e", "f", "t", "T", "e", "e", ";">>, <<"U+">>>>,
     <<<<"D", "o", "u", "b", "l", "e", "L", "o", "n", "g", "L", "e", "f", "t", "A", "r", "r", "o", "w", ";">>, <<"U+">>>>,
     <<<<"D", "o", "u", "b", "l", "e", "L", "o", "n", "g", "L", "e", "f", "t", "R", "i", "g", "h", "t", "A", "r", "r", "o", "w", ";">>, <<"U+">>>>,
     <<<<"D", "o", "u", "b", "l", "e", "L", "o", "n", "g", "R", "i", "g", "h", "t", "A", "r", "r", "o", "w", ";">>, <<"U+">>>>,
     <<<<"D", "o", "u", "b", "l", "e", "R", "i", "g", "h", "t", "A", "r", "r", "o", "w", ";">>, <<"U+">>>>,
     <<<<"D", "o", "u", "b", "l", "e", "R", "i", "g", "h", "t", "T", "e", "e", ";">>, <<"U+">>>>,
     <<<<"D", "o", "u", "b", "l", "e", "U", "p", "A", "r", "r", "o", "w", ";">>, <<"U+">>>>,
     <<<<"D", "o", "u", "b", "l", "e", "U", "p", "D", "o", "w", "n", "A", "r", "r", "o", "w", ";">>, <<"U+">>>>,
     <<<<"D", "o", "u", "b", "l", "e", "V", "e", "r", "t", "i", "c", "a", "l", "B", "a", "r", ";">>, <<"U+">>>>,
     <<<<"D", "o", "w", "n", "A", "r", "r", "o", "w", ";">>, <<"U+">>>>,
     <<<<"D", "o", "w", "n", "A", "r", "r", "o", "w", "B", "a", "r", ";">>, <<"U+">>>>,
     <<<<"D", "o", "w", "n", "A", "r", "r", "o", "w", "U", "p", "A", "r", "r", "o", "w", ";">>, <<"U+">>>>,
     <<<<"D", "o", "w", "n", "B", "r", "e", "v", "e", ";">>, <<"U+">>>>,
     <<<<"D", "o", "w", "n", "L", "e", "f", "t", "R", "i", "g", "h", "t", "V", "e", "c", "t", "o", "r", ";">>, <<"U+">>>>,
     <<<<"D", "o", "w", "n", "L", "e", "f", "t", "T", "e", "e", "V", "e", "c", "t", "o", "r", ";">>, <<"U+">>>>,
     <<<<"D", "o", "w", "n", "L", "e", "f", "t", "V", "e", "c", "t", "o", "r", ";">>, <<"U+">>>>,
     <<<<"D", "o", "w", "n", "L", "e", "f", "t", "V", "e", "c", "t", "o", "r", "B", "a", "r", ";">>, <<"U+">>>>,
     <<<<"D", "o", "w", "n", "R", "i", "g", "h", "t", "T", "e", "e", "V", "e", "c", "t", "o", "r", ";">>, <<"U+">>>>,
     <<<<"D", "o", "w", "n", "R", "i", "g", "h", "t", "V", "e", "c", "t", "o", "r", ";">>, <<"U+">>>>,
     <<<<"D", "o", "w", "n", "R", "i", "g", "h", "t", "V", "e", "c", "t", "o", "r", "B", "a", "r", ";">>, <<"U+">>>>,
     <<<<"D", "o", "w", "n", "T", "e", "e", ";">>, <<"U+">>>>,
     <<<<"D", "o", "w", "n", "T", "e", "e", "A", "r", "r", "o", "w", ";">>, <<"U+">>>>,
     <<<<"D", "o", "w", "n", "a", "r", "r", "o", "w", ";">>, <<"U+">>>>,
     <<<<"D", "s", "c", "r", ";">>, <<"U+03D2">>>>,
     <<<<"D", "s", "t", "r", "o", "k", ";">>, <<"U+00C9">>>>,
     <<<<"E", "N", "G", ";">>, <<"U+00C9">>>>,
     <<<<"E", "T", "H">>, <<"U+00C9">>>>,
     <<<<"E", "T", "H", ";">>, <<"U+00C9">>>>,
     <<<<"E", "a", "c", "u", "t", "e">>, <<"U+00C9">>>>,
     <<<<"E", "a", "c", "u", "t", "e", ";">>, <<"U+00C9">>>>,
     <<<<"E", "c", "a", "r", "o", "n", ";">>, <<"U+00C9">>>>,
     <<<<"E", "c", "i", "r", "c">>, <<"U+00C9">>>>,
     <<<<"E", "c", "i", "r", "c", ";">>, <<"U+00C9">>>>,
     <<<<"E", "c", "y", ";">>, <<"U+00C9">>>>,
     <<<<"E", "d", "o", "t", ";">>, <<"U+00C9">>>>,
     <<<<"E", "f", "r", ";">>, <<"U+03D2">>>>,
     <<<<"E", "g", "r", "a", "v", "e">>, <<"U+00C9">>>>,
     <<<<"E", "g", "r", "a", "v", "e", ";">>, <<"U+00C9">>>>,
     <<<<"E", "l", "e", "m", "e", "n", "t", ";">>, <<"U+">>>>,
     <<<<"E", "m", "a", "c", "r", ";">>, <<"U+00C9">>>>,
     <<<<"E", "m", "p", "t", "y", "S", "m", "a", "l", "l", "S", "q", "u", "a", "r", "e", ";">>, <<"U+">>>>,
     <<<<"E", "m", "p", "t", "y", "V", "e", "r", "y", "S", "m", "a", "l", "l", "S", "q", "u", "a", "r", "e", ";">>, <<"U+">>>>,
     <<<<"E", "o", "g", "o", "n", ";">>, <<"U+00C9">>>>,
     <<<<"E", "o", "p", "f", ";">>, <<"U+03D2">>>>,
     <<<<"E", "p", "s", "i", "l", "o", "n", ";">>, <<"U+00C9">>>>,
     <<<<"E", "q", "u", "a", "l", ";">>, <<"U+">>>>,
     <<<<"E", "q", "u", "a", "l", "T", "i", "l", "d", "e", ";">>, <<"U+">>>>,
     <<<<"E", "q", "u", "i", "l", "i", "b", "r", "i", "u", "m", ";">>, <<"U+">>>>,
     <<<<"E", "s", "c", "r", ";">>, <<"U+03D2">>>>,
     <<<<"E", "s", "i", "m", ";">>, <<"U+">>>>,
     <<<<"E", "t", "a", ";">>, <<"U+00C9">>>>,
     <<<<"E", "u", "m", "l">>, <<"U+00C9">>>>,
     <<<<"E", "u", "m", "l", ";">>, <<"U+00C9">>>>,
     <<<<"E", "x", "i", "s", "t", "s", ";">>, <<"U+">>>>,
     <<<<"E", "x", "p", "o", "n", "e", "n", "t", "i", "a", "l", "E", ";">>, <<"U+00E9">>>>,
     <<<<"F", "c", "y", ";">>, <<"U+00C9">>>>,
     <<<<"F", "f", "r", ";">>, <<"U+03D2">>>>,
     <<<<"F", "i", "l", "l", "e", "d", "S", "m", "a", "l", "l", "S", "q", "u", "a", "r", "e", ";">>, <<"U+">>>>,
     <<<<"F", "i", "l", "l", "e", "d", "V", "e", "r", "y", "S", "m", "a", "l", "l", "S", "q", "u", "a", "r", "e", ";">>, <<"U+">>>>,
     <<<<"F", "o", "p", "f", ";">>, <<"U+03D2">>>>,
     <<<<"F", "o", "r", "A", "l", "l", ";">>, <<"U+">>>>,
     <<<<"F", "o", "u", "r", "i", "e", "r", "t", "r", "f", ";">>, <<"U+03D2">>>>,
     <<<<"F", "s", "c", "r", ";">>, <<"U+03D2">>>>,
     <<<<"G", "J", "c", "y", ";">>, <<"U+00C9">>>>,
     <<<<"G", "T">>, <<">">>>>, <<<<"G", "T", ";">>, <<">">>>>,
     <<<<"G", "a", "m", "m", "a", ";">>, <<"U+00C9">>>>,
     <<<<"G", "a", "m", "m", "a", "d", ";">>, <<"U+00C9">>>>,
     <<<<"G", "b", "r", "e", "v", "e", ";">>, <<"U+00C9">>>>,
     <<<<"G", "c", "e", "d", "i", "l", ";">>, <<"U+00C9">>>>,
     <<<<"G", "c", "i", "r", "c", ";">>, <<"U+00C9">>>>,
     <<<<"G", "c", "y", ";">>, <<"U+00C9">>>>,
     <<<<"G", "d", "o", "t", ";">>, <<"U+00C9">>>>,
     <<<<"G", "f", "r", ";">>, <<"U+03D2">>>>,
     <<<<"G", "g", ";">>, <<"U+">>>>,
     <<<<"G", "o", "p", "f", ";">>, <<"U+03D2">>>>,
     <<<<"G", "r", "e", "a", "t", "e", "r", "E", "q", "u", "a", "l", ";">>, <<"U+">>>>,
     <<<<"G", "r", "e", "a", "t", "e", "r", "E", "q", "u", "a", "l", "L", "e", "s", "s", ";">>, <<"U+">>>>,
     <<<<"G", "r", "e", "a", "t", "e", "r", "F", "u", "l", "l", "E", "q", "u", "a", "l", ";">>, <<"U+">>>>,
     <<<<"G", "r", "e", "a", "t", "e", "r", "G", "r", "e", "a", "t", "e", "r", ";">>, <<"U+">>>>,
     <<<<"G", "r", "e", "a", "t", "e", "r", "L", "e", "s", "s", ";">>, <<"U+">>>>,
     <<<<"G", "r", "e", "a", "t", "e", "r", "S", "l", "a", "n", "t", "E", "q", "u", "a", "l", ";">>, <<"U+">>>>,
     <<<<"G", "r", "e", "a", "t", "e", "r", "T", "i", "l", "d", "e", ";">>, <<"U+">>>>,
     <<<<"G", "s", "c", "r", ";">>, <<"U+03D2">>>>,
     <<<<"G", "t", ";">>, <<"U+">>>>,
     <<<<"H", "A", "R", "D", "c", "y", ";">>, <<"U+00C9">>>>,
     <<<<"H", "a", "c", "e", "k", ";">>, <<"U+00E9">>>>,
     <<<<"H", "a", "t", ";">>, <<"^">>>>,
     <<<<"H", "c", "i", "r", "c", ";">>, <<"U+00C9">>>>,
     <<<<"H", "f", "r", ";">>, <<"U+03D2">>>>,
     <<<<"H", "i", "l", "b", "e", "r", "t", "S", "p", "a", "c", "e", ";">>, <<"U+03D2">>>>,
     <<<<"H", "o", "p", "f", ";">>, <<"U+03D2">>>>,
     <<<<"H", "o", "r", "i", "z", "o", "n", "t", "a", "l", "L", "i", "n", "e", ";">>, <<"U+">>>>,
     <<<<"H", "s", "c", "r", ";">>, <<"U+03D2">>>>,
     <<<<"H", "s", "t", "r", "o", "k", ";">>, <<"U+00C9">>>>,
     <<<<"H", "u", "m", "p", "D", "o", "w", "n", "H", "u", "m", "p", ";">>, <<"U+">>>>,
     <<<<"H", "u", "m", "p", "E", "q", "u", "a", "l", ";">>, <<"U+">>>>,
     <<<<"I", "E", "c", "y", ";">>, <<"U+00C9">>>>,
     <<<<"I", "J", "l", "i", "g", ";">>, <<"U+00C9">>>>,
     <<<<"I", "O", "c", "y", ";">>, <<"U+00C9">>>>,
     <<<<"I", "a", "c", "u", "t", "e">>, <<"U+00C9">>>>,
     <<<<"I", "a", "c", "u", "t", "e", ";">>, <<"U+00C9">>>>,
     <<<<"I", "c", "i", "r", "c">>, <<"U+00C9">>>>,
     <<<<"I", "c", "i", "r", "c", ";">>, <<"U+00C9">>>>,
     <<<<"I", "c", "y", ";">>, <<"U+00C9">>>>,
     <<<<"I", "d", "o", "t", ";">>, <<"U+0130">>>>,
     <<<<"I", "f", "r", ";">>, <<"U+03D2">>>>,
     <<<<"I", "g", "r", "a", "v", "e">>, <<"U+00C9">>>>,
     <<<<"I", "g", "r", "a", "v", "e", ";">>, <<"U+00C9">>>>,
     <<<<"I", "m", ";">>, <<"U+03D2">>>>,
     <<<<"I", "m", "a", "c", "r", ";">>, <<"U+00C9">>>>,
     <<<<"I", "m", "a", "g", "i", "n", "a", "r", "y", "I", ";">>, <<"U+00E9">>>>,
     <<<<"I", "m", "p", "l", "i", "e", "s", ";">>, <<"U+">>>>,
     <<<<"I", "n", "t", ";">>, <<"U+">>>>,
     <<<<"I", "n", "t", "e", "g", "r", "a", "l", ";">>, <<"U+">>>>,
     <<<<"I", "n", "t", "e", "r", "s", "e", "c", "t", "i", "o", "n", ";">>, <<"U+">>>>,
     <<<<"I", "n", "v", "i", "s", "i", "b", "l", "e", "C", "o", "m", "m", "a", ";">>, <<"U+">>>>,
     <<<<"I", "n", "v", "i", "s", "i", "b", "l", "e", "T", "i", "m", "e", "s", ";">>, <<"U+">>>>,
     <<<<"I", "o", "g", "o", "n", ";">>, <<"U+00C9">>>>,
     <<<<"I", "o", "p", "f", ";">>, <<"U+03D2">>>>,
     <<<<"I", "o", "t", "a", ";">>, <<"U+00C9">>>>,
     <<<<"I", "s", "c", "r", ";">>, <<"U+03D2">>>>,
     <<<<"I", "t", "i", "l", "d", "e", ";">>, <<"U+00C9">>>>,
     <<<<"I", "u", "k", "c", "y", ";">>, <<"U+00C9">>>>,
     <<<<"I", "u", "m", "l">>, <<"U+00C9">>>>,
     <<<<"I", "u", "m", "l", ";">>, <<"U+00C9">>>>,
     <<<<"J", "c", "i", "r", "c", ";">>, <<"U+00C9">>>>,
     <<<<"J", "c", "y", ";">>, <<"U+00C9">>>>,
     <<<<"J", "f", "r", ";">>, <<"U+03D2">>>>,
     <<<<"J", "o", "p", "f", ";">>, <<"U+03D2">>>>,
     <<<<"J", "s", "c", "r", ";">>, <<"U+03D2">>>>,
     <<<<"J", "s", "e", "r", "c", "y", ";">>, <<"U+00C9">>>>,
     <<<<"J", "u", "k", "c", "y", ";">>, <<"U+00C9">>>>,
     <<<<"K", "H", "c", "y", ";">>, <<"U+00C9">>>>,
     <<<<"K", "J", "c", "y", ";">>, <<"U+00C9">>>>,
     <<<<"K", "a", "p", "p", "a", ";">>, <<"U+00C9">>>>,
     <<<<"K", "c", "e", "d", "i", "l", ";">>, <<"U+00C9">>>>,
     <<<<"K", "c", "y", ";">>, <<"U+00C9">>>>,
     <<<<"K", "f", "r", ";">>, <<"U+03D2">>>>,
     <<<<"K", "o", "p", "f", ";">>, <<"U+03D2">>>>,
     <<<<"K", "s", "c", "r", ";">>, <<"U+03D2">>>>,
     <<<<"L", "J", "c", "y", ";">>, <<"U+00C9">>>>,
     <<<<"L", "T">>, <<"<">>>>, <<<<"L", "T", ";">>, <<"<">>>>,
     <<<<"L", "a", "c", "u", "t", "e", ";">>, <<"U+00C9">>>>,
     <<<<"L", "a", "m", "b", "d", "a", ";">>, <<"U+00C9">>>>,
     <<<<"L", "a", "n", "g", ";">>, <<"U+">>>>,
     <<<<"L", "a", "p", "l", "a", "c", "e", "t", "r", "f", ";">>, <<"U+03D2">>>>,
     <<<<"L", "a", "r", "r", ";">>, <<"U+">>>>,
     <<<<"L", "c", "a", "r", "o", "n", ";">>, <<"U+00C9">>>>,
     <<<<"L", "c", "e", "d", "i", "l", ";">>, <<"U+00C9">>>>,
     <<<<"L", "c", "y", ";">>, <<"U+00C9">>>>,
     <<<<"L", "e", "f", "t", "A", "n", "g", "l", "e", "B", "r", "a", "c", "k", "e", "t", ";">>, <<"U+">>>>,
     <<<<"L", "e", "f", "t", "A", "r", "r", "o", "w", ";">>, <<"U+">>>>,
     <<<<"L", "e", "f", "t", "A", "r", "r", "o", "w", "B", "a", "r", ";">>, <<"U+">>>>,
     <<<<"L", "e", "f", "t", "A", "r", "r", "o", "w", "R", "i", "g", "h", "t", "A", "r", "r", "o", "w", ";">>, <<"U+">>>>,
     <<<<"L", "e", "f", "t", "C", "e", "i", "l", "i", "n", "g", ";">>, <<"U+">>>>,
     <<<<"L", "e", "f", "t", "D", "o", "u", "b", "l", "e", "B", "r", "a", "c", "k", "e", "t", ";">>, <<"U+">>>>,
     <<<<"L", "e", "f", "t", "D", "o", "w", "n", "T", "e", "e", "V", "e", "c", "t", "o", "r", ";">>, <<"U+">>>>,
     <<<<"L", "e", "f", "t", "D", "o", "w", "n", "V", "e", "c", "t", "o", "r", ";">>, <<"U+">>>>,
     <<<<"L", "e", "f", "t", "D", "o", "w", "n", "V", "e", "c", "t", "o", "r", "B", "a", "r", ";">>, <<"U+">>>>,
     <<<<"L", "e", "f", "t", "F", "l", "o", "o", "r", ";">>, <<"U+">>>>,
     <<<<"L", "e", "f", "t", "R", "i", "g", "h", "t", "A", "r", "r", "o", "w", ";">>, <<"U+">>>>,
     <<<<"L", "e", "f", "t", "R", "i", "g", "h", "t", "V", "e", "c", "t", "o", "r", ";">>, <<"U+">>>>,
     <<<<"L", "e", "f", "t", "T", "e", "e", ";">>, <<"U+">>>>,
     <<<<"L", "e", "f", "t", "T", "e", "e", "A", "r", "r", "o", "w", ";">>, <<"U+">>>>,
     <<<<"L", "e", "f", "t", "T", "e", "e", "V", "e", "c", "t", "o", "r", ";">>, <<"U+">>>>,
     <<<<"L", "e", "f", "t", "T", "r", "i", "a", "n", "g", "l", "e", ";">>, <<"U+">>>>,
     <<<<"L", "e", "f", "t", "T", "r", "i", "a", "n", "g", "l", "e", "B", "a", "r", ";">>, <<"U+">>>>,
     <<<<"L", "e", "f", "t", "T", "r", "i", "a", "n", "g", "l", "e", "E", "q", "u", "a", "l", ";">>, <<"U+">>>>,
     <<<<"L", "e", "f", "t", "U", "p", "D", "o", "w", "n", "V", "e", "c", "t", "o", "r", ";">>, <<"U+">>>>,
     <<<<"L", "e", "f", "t", "U", "p", "T", "e", "e", "V", "e", "c", "t", "o", "r", ";">>, <<"U+">>>>,
     <<<<"L", "e", "f", "t", "U", "p", "V", "e", "c", "t", "o", "r", ";">>, <<"U+">>>>,
     <<<<"L", "e", "f", "t", "U", "p", "V", "e", "c", "t", "o", "r", "B", "a", "r", ";">>, <<"U+">>>>,
     <<<<"L", "e", "f", "t", "V", "e", "c", "t", "o", "r", ";">>, <<"U+">>>>,
     <<<<"L", "e", "f", "t", "V", "e", "c", "t", "o", "r", "B", "a", "r", ";">>, <<"U+">>>>,
     <<<<"L", "e", "f", "t", "a", "r", "r", "o", "w", ";">>, <<"U+">>>>,
     <<<<"L", "e", "f", "t", "r", "i", "g", "h", "t", "a", "r", "r", "o", "w", ";">>, <<"U+">>>>,
     <<<<"L", "e", "s", "s", "E", "q", "u", "a", "l", "G", "r", "e", "a", "t", "e", "r", ";">>, <<"U+">>>>,
     <<<<"L", "e", "s", "s", "F", "u", "l", "l", "E", "q", "u", "a", "l", ";">>, <<"U+">>>>,
     <<<<"L", "e", "s", "s", "G", "r", "e", "a", "t", "e", "r", ";">>, <<"U+">>>>,
     <<<<"L", "e", "s", "s", "L", "e", "s", "s", ";">>, <<"U+">>>>,
     <<<<"L", "e", "s", "s", "S", "l", "a", "n", "t", "E", "q", "u", "a", "l", ";">>, <<"U+">>>>,
     <<<<"L", "e", "s", "s", "T", "i", "l", "d", "e", ";">>, <<"U+">>>>,
     <<<<"L", "f", "r", ";">>, <<"U+03D2">>>>,
     <<<<"L", "l", ";">>, <<"U+">>>>,
     <<<<"L", "l", "e", "f", "t", "a", "r", "r", "o", "w", ";">>, <<"U+">>>>,
     <<<<"L", "m", "i", "d", "o", "t", ";">>, <<"U+00C9">>>>,
     <<<<"L", "o", "n", "g", "L", "e", "f", "t", "A", "r", "r", "o", "w", ";">>, <<"U+">>>>,
     <<<<"L", "o", "n", "g", "L", "e", "f", "t", "R", "i", "g", "h", "t", "A", "r", "r", "o", "w", ";">>, <<"U+">>>>,
     <<<<"L", "o", "n", "g", "R", "i", "g", "h", "t", "A", "r", "r", "o", "w", ";">>, <<"U+">>>>,
     <<<<"L", "o", "n", "g", "l", "e", "f", "t", "a", "r", "r", "o", "w", ";">>, <<"U+">>>>,
     <<<<"L", "o", "n", "g", "l", "e", "f", "t", "r", "i", "g", "h", "t", "a", "r", "r", "o", "w", ";">>, <<"U+">>>>,
     <<<<"L", "o", "n", "g", "r", "i", "g", "h", "t", "a", "r", "r", "o", "w", ";">>, <<"U+">>>>,
     <<<<"L", "o", "p", "f", ";">>, <<"U+03D2">>>>,
     <<<<"L", "o", "w", "e", "r", "L", "e", "f", "t", "A", "r", "r", "o", "w", ";">>, <<"U+">>>>,
     <<<<"L", "o", "w", "e", "r", "R", "i", "g", "h", "t", "A", "r", "r", "o", "w", ";">>, <<"U+">>>>,
     <<<<"L", "s", "c", "r", ";">>, <<"U+03D2">>>>,
     <<<<"L", "s", "h", ";">>, <<"U+">>>>,
     <<<<"L", "s", "t", "r", "o", "k", ";">>, <<"U+00C9">>>>,
     <<<<"L", "t", ";">>, <<"U+">>>>, <<<<"M", "a", "p", ";">>, <<"U+">>>>,
     <<<<"M", "c", "y", ";">>, <<"U+00C9">>>>,
     <<<<"M", "e", "d", "i", "u", "m", "S", "p", "a", "c", "e", ";">>, <<"U+">>>>,
     <<<<"M", "e", "l", "l", "i", "n", "t", "r", "f", ";">>, <<"U+03D2">>>>,
     <<<<"M", "f", "r", ";">>, <<"U+03D2">>>>,
     <<<<"M", "i", "n", "u", "s", "P", "l", "u", "s", ";">>, <<"U+">>>>,
     <<<<"M", "o", "p", "f", ";">>, <<"U+03D2">>>>,
     <<<<"M", "s", "c", "r", ";">>, <<"U+03D2">>>>,
     <<<<"M", "u", ";">>, <<"U+00C9">>>>,
     <<<<"N", "J", "c", "y", ";">>, <<"U+00C9">>>>,
     <<<<"N", "a", "c", "u", "t", "e", ";">>, <<"U+00C9">>>>,
     <<<<"N", "c", "a", "r", "o", "n", ";">>, <<"U+00C9">>>>,
     <<<<"N", "c", "e", "d", "i", "l", ";">>, <<"U+00C9">>>>,
     <<<<"N", "c", "y", ";">>, <<"U+00C9">>>>,
     <<<<"N", "e", "g", "a", "t", "i", "v", "e", "M", "e", "d", "i", "u", "m", "S", "p", "a", "c", "e", ";">>, <<"U+">>>>,
     <<<<"N", "e", "g", "a", "t", "i", "v", "e", "T", "h", "i", "c", "k", "S", "p", "a", "c", "e", ";">>, <<"U+">>>>,
     <<<<"N", "e", "g", "a", "t", "i", "v", "e", "T", "h", "i", "n", "S", "p", "a", "c", "e", ";">>, <<"U+">>>>,
     <<<<"N", "e", "g", "a", "t", "i", "v", "e", "V", "e", "r", "y", "T", "h", "i", "n", "S", "p", "a", "c", "e", ";">>, <<"U+">>>>,
     <<<<"N", "e", "s", "t", "e", "d", "G", "r", "e", "a", "t", "e", "r", "G", "r", "e", "a", "t", "e", "r", ";">>, <<"U+">>>>,
     <<<<"N", "e", "s", "t", "e", "d", "L", "e", "s", "s", "L", "e", "s", "s", ";">>, <<"U+">>>>,
     <<<<"N", "e", "w", "L", "i", "n", "e", ";">>, <<"\n">>>>,
     <<<<"N", "f", "r", ";">>, <<"U+03D2">>>>,
     <<<<"N", "o", "B", "r", "e", "a", "k", ";">>, <<"U+">>>>,
     <<<<"N", "o", "n", "B", "r", "e", "a", "k", "i", "n", "g", "S", "p", "a", "c", "e", ";">>, <<"U+">>>>,
     <<<<"N", "o", "p", "f", ";">>, <<"U+03D2">>>>,
     <<<<"N", "o", "t", ";">>, <<"U+">>>>,
     <<<<"N", "o", "t", "C", "o", "n", "g", "r", "u", "e", "n", "t", ";">>, <<"U+">>>>,
     <<<<"N", "o", "t", "C", "u", "p", "C", "a", "p", ";">>, <<"U+">>>>,
     <<<<"N", "o", "t", "D", "o", "u", "b", "l", "e", "V", "e", "r", "t", "i", "c", "a", "l", "B", "a", "r", ";">>, <<"U+">>>>,
     <<<<"N", "o", "t", "E", "l", "e", "m", "e", "n", "t", ";">>, <<"U+">>>>,
     <<<<"N", "o", "t", "E", "q", "u", "a", "l", ";">>, <<"U+">>>>,
     <<<<"N", "o", "t", "E", "q", "u", "a", "l", "T", "i", "l", "d", "e", ";">>, <<"U+", "U+">>>>,
     <<<<"N", "o", "t", "E", "x", "i", "s", "t", "s", ";">>, <<"U+">>>>,
     <<<<"N", "o", "t", "G", "r", "e", "a", "t", "e", "r", ";">>, <<"U+">>>>,
     <<<<"N", "o", "t", "G", "r", "e", "a", "t", "e", "r", "E", "q", "u", "a", "l", ";">>, <<"U+">>>>,
     <<<<"N", "o", "t", "G", "r", "e", "a", "t", "e", "r", "F", "u", "l", "l", "E", "q", "u", "a", "l", ";">>, <<"U+", "U+">>>>,
     <<<<"N", "o", "t", "G", "r", "e", "a", "t", "e", "r", "G", "r", "e", "a", "t", "e", "r", ";">>, <<"U+", "U+">>>>,
     <<<<"N", "o", "t", "G", "r", "e", "a", "t", "e", "r", "L", "e", "s", "s", ";">>, <<"U+">>>>,
     <<<<"N", "o", "t", "G", "r", "e", "a", "t", "e", "r", "S", "l", "a", "n", "t", "E", "q", "u", "a", "l", ";">>, <<"U+", "U+">>>>,
     <<<<"N", "o", "t", "G", "r", "e", "a", "t", "e", "r", "T", "i", "l", "d", "e", ";">>, <<"U+">>>>,
     <<<<"N", "o", "t", "H", "u", "m", "p", "D", "o", "w", "n", "H", "u", "m", "p", ";">>, <<"U+", "U+">>>>,
     <<<<"N", "o", "t", "H", "u", "m", "p", "E", "q", "u", "a", "l", ";">>, <<"U+", "U+">>>>,
     <<<<"N", "o", "t", "L", "e", "f", "t", "T", "r", "i", "a", "n", "g", "l", "e", ";">>, <<"U+">>>>,
     <<<<"N", "o", "t", "L", "e", "f", "t", "T", "r", "i", "a", "n", "g", "l", "e", "B", "a", "r", ";">>, <<"U+", "U+">>>>,
     <<<<"N", "o", "t", "L", "e", "f", "t", "T", "r", "i", "a", "n", "g", "l", "e", "E", "q", "u", "a", "l", ";">>, <<"U+">>>>,
     <<<<"N", "o", "t", "L", "e", "s", "s", ";">>, <<"U+">>>>,
     <<<<"N", "o", "t", "L", "e", "s", "s", "E", "q", "u", "a", "l", ";">>, <<"U+">>>>,
     <<<<"N", "o", "t", "L", "e", "s", "s", "G", "r", "e", "a", "t", "e", "r", ";">>, <<"U+">>>>,
     <<<<"N", "o", "t", "L", "e", "s", "s", "L", "e", "s", "s", ";">>, <<"U+", "U+">>>>,
     <<<<"N", "o", "t", "L", "e", "s", "s", "S", "l", "a", "n", "t", "E", "q", "u", "a", "l", ";">>, <<"U+", "U+">>>>,
     <<<<"N", "o", "t", "L", "e", "s", "s", "T", "i", "l", "d", "e", ";">>, <<"U+">>>>,
     <<<<"N", "o", "t", "N", "e", "s", "t", "e", "d", "G", "r", "e", "a", "t", "e", "r", "G", "r", "e", "a", "t", "e", "r", ";">>, <<"U+", "U+">>>>,
     <<<<"N", "o", "t", "N", "e", "s", "t", "e", "d", "L", "e", "s", "s", "L", "e", "s", "s", ";">>, <<"U+", "U+">>>>,
     <<<<"N", "o", "t", "P", "r", "e", "c", "e", "d", "e", "s", ";">>, <<"U+">>>>,
     <<<<"N", "o", "t", "P", "r", "e", "c", "e", "d", "e", "s", "E", "q", "u", "a", "l", ";">>, <<"U+", "U+">>>>,
     <<<<"N", "o", "t", "P", "r", "e", "c", "e", "d", "e", "s", "S", "l", "a", "n", "t", "E", "q", "u", "a", "l", ";">>, <<"U+">>>>,
     <<<<"N", "o", "t", "R", "e", "v", "e", "r", "s", "e", "E", "l", "e", "m", "e", "n", "t", ";">>, <<"U+">>>>,
     <<<<"N", "o", "t", "R", "i", "g", "h", "t", "T", "r", "i", "a", "n", "g", "l", "e", ";">>, <<"U+">>>>,
     <<<<"N", "o", "t", "R", "i", "g", "h", "t", "T", "r", "i", "a", "n", "g", "l", "e", "B", "a", "r", ";">>, <<"U+", "U+">>>>,
     <<<<"N", "o", "t", "R", "i", "g", "h", "t", "T", "r", "i", "a", "n", "g", "l", "e", "E", "q", "u", "a", "l", ";">>, <<"U+">>>>,
     <<<<"N", "o", "t", "S", "q", "u", "a", "r", "e", "S", "u", "b", "s", "e", "t", ";">>, <<"U+", "U+">>>>,
     <<<<"N", "o", "t", "S", "q", "u", "a", "r", "e", "S", "u", "b", "s", "e", "t", "E", "q", "u", "a", "l", ";">>, <<"U+">>>>,
     <<<<"N", "o", "t", "S", "q", "u", "a", "r", "e", "S", "u", "p", "e", "r", "s", "e", "t", ";">>, <<"U+", "U+">>>>,
     <<<<"N", "o", "t", "S", "q", "u", "a", "r", "e", "S", "u", "p", "e", "r", "s", "e", "t", "E", "q", "u", "a", "l", ";">>, <<"U+">>>>,
     <<<<"N", "o", "t", "S", "u", "b", "s", "e", "t", ";">>, <<"U+", "U+">>>>,
     <<<<"N", "o", "t", "S", "u", "b", "s", "e", "t", "E", "q", "u", "a", "l", ";">>, <<"U+">>>>,
     <<<<"N", "o", "t", "S", "u", "c", "c", "e", "e", "d", "s", ";">>, <<"U+">>>>,
     <<<<"N", "o", "t", "S", "u", "c", "c", "e", "e", "d", "s", "E", "q", "u", "a", "l", ";">>, <<"U+", "U+">>>>,
     <<<<"N", "o", "t", "S", "u", "c", "c", "e", "e", "d", "s", "S", "l", "a", "n", "t", "E", "q", "u", "a", "l", ";">>, <<"U+">>>>,
     <<<<"N", "o", "t", "S", "u", "c", "c", "e", "e", "d", "s", "T", "i", "l", "d", "e", ";">>, <<"U+", "U+">>>>,
     <<<<"N", "o", "t", "S", "u", "p", "e", "r", "s", "e", "t", ";">>, <<"U+", "U+">>>>,
     <<<<"N", "o", "t", "S", "u", "p", "e", "r", "s", "e", "t", "E", "q", "u", "a", "l", ";">>, <<"U+">>>>,
     <<<<"N", "o", "t", "T", "i", "l", "d", "e", ";">>, <<"U+">>>>,
     <<<<"N", "o", "t", "T", "i", "l", "d", "e", "E", "q", "u", "a", "l", ";">>, <<"U+">>>>,
     <<<<"N", "o", "t", "T", "i", "l", "d", "e", "F", "u", "l", "l", "E", "q", "u", "a", "l", ";">>, <<"U+">>>>,
     <<<<"N", "o", "t", "T", "i", "l", "d", "e", "T", "i", "l", "d", "e", ";">>, <<"U+">>>>,
     <<<<"N", "o", "t", "V", "e", "r", "t", "i", "c", "a", "l", "B", "a", "r", ";">>, <<"U+">>>>,
     <<<<"N", "s", "c", "r", ";">>, <<"U+03D2">>>>,
     <<<<"N", "t", "i", "l", "d", "e">>, <<"U+00C9">>>>,
     <<<<"N", "t", "i", "l", "d", "e", ";">>, <<"U+00C9">>>>,
     <<<<"N", "u", ";">>, <<"U+00C9">>>>,
     <<<<"O", "E", "l", "i", "g", ";">>, <<"U+00C9">>>>,
     <<<<"O", "a", "c", "u", "t", "e">>, <<"U+00C9">>>>,
     <<<<"O", "a", "c", "u", "t", "e", ";">>, <<"U+00C9">>>>,
     <<<<"O", "c", "i", "r", "c">>, <<"U+00C9">>>>,
     <<<<"O", "c", "i", "r", "c", ";">>, <<"U+00C9">>>>,
     <<<<"O", "c", "y", ";">>, <<"U+00C9">>>>,
     <<<<"O", "d", "b", "l", "a", "c", ";">>, <<"U+00C9">>>>,
     <<<<"O", "f", "r", ";">>, <<"U+03D2">>>>,
     <<<<"O", "g", "r", "a", "v", "e">>, <<"U+00C9">>>>,
     <<<<"O", "g", "r", "a", "v", "e", ";">>, <<"U+00C9">>>>,
     <<<<"O", "m", "a", "c", "r", ";">>, <<"U+00C9">>>>,
     <<<<"O", "m", "e", "g", "a", ";">>, <<"U+00C9">>>>,
     <<<<"O", "m", "i", "c", "r", "o", "n", ";">>, <<"U+00C9">>>>,
     <<<<"O", "o", "p", "f", ";">>, <<"U+03D2">>>>,
     <<<<"O", "p", "e", "n", "C", "u", "r", "l", "y", "D", "o", "u", "b", "l", "e", "Q", "u", "o", "t", "e", ";">>, <<"U+">>>>,
     <<<<"O", "p", "e", "n", "C", "u", "r", "l", "y", "Q", "u", "o", "t", "e", ";">>, <<"U+">>>>,
     <<<<"O", "r", ";">>, <<"U+">>>>,
     <<<<"O", "s", "c", "r", ";">>, <<"U+03D2">>>>,
     <<<<"O", "s", "l", "a", "s", "h">>, <<"U+00C9">>>>,
     <<<<"O", "s", "l", "a", "s", "h", ";">>, <<"U+00C9">>>>,
     <<<<"O", "t", "i", "l", "d", "e">>, <<"U+00C9">>>>,
     <<<<"O", "t", "i", "l", "d", "e", ";">>, <<"U+00C9">>>>,
     <<<<"O", "t", "i", "m", "e", "s", ";">>, <<"U+">>>>,
     <<<<"O", "u", "m", "l">>, <<"U+00C9">>>>,
     <<<<"O", "u", "m", "l", ";">>, <<"U+00C9">>>>,
     <<<<"O", "v", "e", "r", "B", "a", "r", ";">>, <<"U+">>>>,
     <<<<"O", "v", "e", "r", "B", "r", "a", "c", "e", ";">>, <<"U+">>>>,
     <<<<"O", "v", "e", "r", "B", "r", "a", "c", "k", "e", "t", ";">>, <<"U+">>>>,
     <<<<"O", "v", "e", "r", "P", "a", "r", "e", "n", "t", "h", "e", "s", "i", "s", ";">>, <<"U+">>>>,
     <<<<"P", "a", "r", "t", "i", "a", "l", "D", ";">>, <<"U+">>>>,
     <<<<"P", "c", "y", ";">>, <<"U+00C9">>>>,
     <<<<"P", "f", "r", ";">>, <<"U+03D2">>>>,
     <<<<"P", "h", "i", ";">>, <<"U+00C9">>>>,
     <<<<"P", "i", ";">>, <<"U+00C9">>>>,
     <<<<"P", "l", "u", "s", "M", "i", "n", "u", "s", ";">>, <<"U+">>>>,
     <<<<"P", "o", "i", "n", "c", "a", "r", "e", "p", "l", "a", "n", "e", ";">>, <<"U+03D2">>>>,
     <<<<"P", "o", "p", "f", ";">>, <<"U+03D2">>>>,
     <<<<"P", "r", ";">>, <<"U+">>>>,
     <<<<"P", "r", "e", "c", "e", "d", "e", "s", ";">>, <<"U+">>>>,
     <<<<"P", "r", "e", "c", "e", "d", "e", "s", "E", "q", "u", "a", "l", ";">>, <<"U+">>>>,
     <<<<"P", "r", "e", "c", "e", "d", "e", "s", "S", "l", "a", "n", "t", "E", "q", "u", "a", "l", ";">>, <<"U+">>>>,
     <<<<"P", "r", "e", "c", "e", "d", "e", "s", "T", "i", "l", "d", "e", ";">>, <<"U+">>>>,
     <<<<"P", "r", "i", "m", "e", ";">>, <<"U+">>>>,
     <<<<"P", "r", "o", "d", "u", "c", "t", ";">>, <<"U+">>>>,
     <<<<"P", "r", "o", "p", "o", "r", "t", "i", "o", "n", ";">>, <<"U+">>>>,
     <<<<"P", "r", "o", "p", "o", "r", "t", "i", "o", "n", "a", "l", ";">>, <<"U+">>>>,
     <<<<"P", "s", "c", "r", ";">>, <<"U+03D2">>>>,
     <<<<"P", "s", "i", ";">>, <<"U+00C9">>>>,
     <<<<"Q", "U", "O", "T">>, <<"\"">>>>,
     <<<<"Q", "U", "O", "T", ";">>, <<"\"">>>>,
     <<<<"Q", "f", "r", ";">>, <<"U+03D2">>>>,
     <<<<"Q", "o", "p", "f", ";">>, <<"U+03D2">>>>,
     <<<<"Q", "s", "c", "r", ";">>, <<"U+03D2">>>>,
     <<<<"R", "B", "a", "r", "r", ";">>, <<"U+">>>>,
     <<<<"R", "E", "G">>, <<"U+">>>>, <<<<"R", "E", "G", ";">>, <<"U+">>>>,
     <<<<"R", "a", "c", "u", "t", "e", ";">>, <<"U+00C9">>>>,
     <<<<"R", "a", "n", "g", ";">>, <<"U+">>>>,
     <<<<"R", "a", "r", "r", ";">>, <<"U+">>>>,
     <<<<"R", "a", "r", "r", "t", "l", ";">>, <<"U+">>>>,
     <<<<"R", "c", "a", "r", "o", "n", ";">>, <<"U+00C9">>>>,
     <<<<"R", "c", "e", "d", "i", "l", ";">>, <<"U+00C9">>>>,
     <<<<"R", "c", "y", ";">>, <<"U+00C9">>>>,
     <<<<"R", "e", ";">>, <<"U+03D2">>>>,
     <<<<"R", "e", "v", "e", "r", "s", "e", "E", "l", "e", "m", "e", "n", "t", ";">>, <<"U+">>>>,
     <<<<"R", "e", "v", "e", "r", "s", "e", "E", "q", "u", "i", "l", "i", "b", "r", "i", "u", "m", ";">>, <<"U+">>>>,
     <<<<"R", "e", "v", "e", "r", "s", "e", "U", "p", "E", "q", "u", "i", "l", "i", "b", "r", "i", "u", "m", ";">>, <<"U+">>>>,
     <<<<"R", "f", "r", ";">>, <<"U+03D2">>>>,
     <<<<"R", "h", "o", ";">>, <<"U+00C9">>>>,
     <<<<"R", "i", "g", "h", "t", "A", "n", "g", "l", "e", "B", "r", "a", "c", "k", "e", "t", ";">>, <<"U+">>>>,
     <<<<"R", "i", "g", "h", "t", "A", "r", "r", "o", "w", ";">>, <<"U+">>>>,
     <<<<"R", "i", "g", "h", "t", "A", "r", "r", "o", "w", "B", "a", "r", ";">>, <<"U+">>>>,
     <<<<"R", "i", "g", "h", "t", "A", "r", "r", "o", "w", "L", "e", "f", "t", "A", "r", "r", "o", "w", ";">>, <<"U+">>>>,
     <<<<"R", "i", "g", "h", "t", "C", "e", "i", "l", "i", "n", "g", ";">>, <<"U+">>>>,
     <<<<"R", "i", "g", "h", "t", "D", "o", "u", "b", "l", "e", "B", "r", "a", "c", "k", "e", "t", ";">>, <<"U+">>>>,
     <<<<"R", "i", "g", "h", "t", "D", "o", "w", "n", "T", "e", "e", "V", "e", "c", "t", "o", "r", ";">>, <<"U+">>>>,
     <<<<"R", "i", "g", "h", "t", "D", "o", "w", "n", "V", "e", "c", "t", "o", "r", ";">>, <<"U+">>>>,
     <<<<"R", "i", "g", "h", "t", "D", "o", "w", "n", "V", "e", "c", "t", "o", "r", "B", "a", "r", ";">>, <<"U+">>>>,
     <<<<"R", "i", "g", "h", "t", "F", "l", "o", "o", "r", ";">>, <<"U+">>>>,
     <<<<"R", "i", "g", "h", "t", "T", "e", "e", ";">>, <<"U+">>>>,
     <<<<"R", "i", "g", "h", "t", "T", "e", "e", "A", "r", "r", "o", "w", ";">>, <<"U+">>>>,
     <<<<"R", "i", "g", "h", "t", "T", "e", "e", "V", "e", "c", "t", "o", "r", ";">>, <<"U+">>>>,
     <<<<"R", "i", "g", "h", "t", "T", "r", "i", "a", "n", "g", "l", "e", ";">>, <<"U+">>>>,
     <<<<"R", "i", "g", "h", "t", "T", "r", "i", "a", "n", "g", "l", "e", "B", "a", "r", ";">>, <<"U+">>>>,
     <<<<"R", "i", "g", "h", "t", "T", "r", "i", "a", "n", "g", "l", "e", "E", "q", "u", "a", "l", ";">>, <<"U+">>>>,
     <<<<"R", "i", "g", "h", "t", "U", "p", "D", "o", "w", "n", "V", "e", "c", "t", "o", "r", ";">>, <<"U+">>>>,
     <<<<"R", "i", "g", "h", "t", "U", "p", "T", "e", "e", "V", "e", "c", "t", "o", "r", ";">>, <<"U+">>>>,
     <<<<"R", "i", "g", "h", "t", "U", "p", "V", "e", "c", "t", "o", "r", ";">>, <<"U+">>>>,
     <<<<"R", "i", "g", "h", "t", "U", "p", "V", "e", "c", "t", "o", "r", "B", "a", "r", ";">>, <<"U+">>>>,
     <<<<"R", "i", "g", "h", "t", "V", "e", "c", "t", "o", "r", ";">>, <<"U+">>>>,
     <<<<"R", "i", "g", "h", "t", "V", "e", "c", "t", "o", "r", "B", "a", "r", ";">>, <<"U+">>>>,
     <<<<"R", "i", "g", "h", "t", "a", "r", "r", "o", "w", ";">>, <<"U+">>>>,
     <<<<"R", "o", "p", "f", ";">>, <<"U+03D2">>>>,
     <<<<"R", "o", "u", "n", "d", "I", "m", "p", "l", "i", "e", "s", ";">>, <<"U+">>>>,
     <<<<"R", "r", "i", "g", "h", "t", "a", "r", "r", "o", "w", ";">>, <<"U+">>>>,
     <<<<"R", "s", "c", "r", ";">>, <<"U+03D2">>>>,
     <<<<"R", "s", "h", ";">>, <<"U+">>>>,
     <<<<"R", "u", "l", "e", "D", "e", "l", "a", "y", "e", "d", ";">>, <<"U+">>>>,
     <<<<"S", "H", "C", "H", "c", "y", ";">>, <<"U+00C9">>>>,
     <<<<"S", "H", "c", "y", ";">>, <<"U+00C9">>>>,
     <<<<"S", "O", "F", "T", "c", "y", ";">>, <<"U+00C9">>>>,
     <<<<"S", "a", "c", "u", "t", "e", ";">>, <<"U+00C9">>>>,
     <<<<"S", "c", ";">>, <<"U+">>>>,
     <<<<"S", "c", "a", "r", "o", "n", ";">>, <<"U+00C9">>>>,
     <<<<"S", "c", "e", "d", "i", "l", ";">>, <<"U+00C9">>>>,
     <<<<"S", "c", "i", "r", "c", ";">>, <<"U+00C9">>>>,
     <<<<"S", "c", "y", ";">>, <<"U+00C9">>>>,
     <<<<"S", "f", "r", ";">>, <<"U+03D2">>>>,
     <<<<"S", "h", "o", "r", "t", "D", "o", "w", "n", "A", "r", "r", "o", "w", ";">>, <<"U+">>>>,
     <<<<"S", "h", "o", "r", "t", "L", "e", "f", "t", "A", "r", "r", "o", "w", ";">>, <<"U+">>>>,
     <<<<"S", "h", "o", "r", "t", "R", "i", "g", "h", "t", "A", "r", "r", "o", "w", ";">>, <<"U+">>>>,
     <<<<"S", "h", "o", "r", "t", "U", "p", "A", "r", "r", "o", "w", ";">>, <<"U+">>>>,
     <<<<"S", "i", "g", "m", "a", ";">>, <<"U+00C9">>>>,
     <<<<"S", "m", "a", "l", "l", "C", "i", "r", "c", "l", "e", ";">>, <<"U+">>>>,
     <<<<"S", "o", "p", "f", ";">>, <<"U+03D2">>>>,
     <<<<"S", "q", "r", "t", ";">>, <<"U+">>>>,
     <<<<"S", "q", "u", "a", "r", "e", ";">>, <<"U+">>>>,
     <<<<"S", "q", "u", "a", "r", "e", "I", "n", "t", "e", "r", "s", "e", "c", "t", "i", "o", "n", ";">>, <<"U+">>>>,
     <<<<"S", "q", "u", "a", "r", "e", "S", "u", "b", "s", "e", "t", ";">>, <<"U+">>>>,
     <<<<"S", "q", "u", "a", "r", "e", "S", "u", "b", "s", "e", "t", "E", "q", "u", "a", "l", ";">>, <<"U+">>>>,
     <<<<"S", "q", "u", "a", "r", "e", "S", "u", "p", "e", "r", "s", "e", "t", ";">>, <<"U+">>>>,
     <<<<"S", "q", "u", "a", "r", "e", "S", "u", "p", "e", "r", "s", "e", "t", "E", "q", "u", "a", "l", ";">>, <<"U+">>>>,
     <<<<"S", "q", "u", "a", "r", "e", "U", "n", "i", "o", "n", ";">>, <<"U+">>>>,
     <<<<"S", "s", "c", "r", ";">>, <<"U+03D2">>>>,
     <<<<"S", "t", "a", "r", ";">>, <<"U+">>>>,
     <<<<"S", "u", "b", ";">>, <<"U+">>>>,
     <<<<"S", "u", "b", "s", "e", "t", ";">>, <<"U+">>>>,
     <<<<"S", "u", "b", "s", "e", "t", "E", "q", "u", "a", "l", ";">>, <<"U+">>>>,
     <<<<"S", "u", "c", "c", "e", "e", "d", "s", ";">>, <<"U+">>>>,
     <<<<"S", "u", "c", "c", "e", "e", "d", "s", "E", "q", "u", "a", "l", ";">>, <<"U+">>>>,
     <<<<"S", "u", "c", "c", "e", "e", "d", "s", "S", "l", "a", "n", "t", "E", "q", "u", "a", "l", ";">>, <<"U+">>>>,
     <<<<"S", "u", "c", "c", "e", "e", "d", "s", "T", "i", "l", "d", "e", ";">>, <<"U+">>>>,
     <<<<"S", "u", "c", "h", "T", "h", "a", "t", ";">>, <<"U+">>>>,
     <<<<"S", "u", "m", ";">>, <<"U+">>>>,
     <<<<"S", "u", "p", ";">>, <<"U+">>>>,
     <<<<"S", "u", "p", "e", "r", "s", "e", "t", ";">>, <<"U+">>>>,
     <<<<"S", "u", "p", "e", "r", "s", "e", "t", "E", "q", "u", "a", "l", ";">>, <<"U+">>>>,
     <<<<"S", "u", "p", "s", "e", "t", ";">>, <<"U+">>>>,
     <<<<"T", "H", "O", "R", "N">>, <<"U+00C9">>>>,
     <<<<"T", "H", "O", "R", "N", ";">>, <<"U+00C9">>>>,
     <<<<"T", "R", "A", "D", "E", ";">>, <<"U+">>>>,
     <<<<"T", "S", "H", "c", "y", ";">>, <<"U+00C9">>>>,
     <<<<"T", "S", "c", "y", ";">>, <<"U+00C9">>>>,
     <<<<"T", "a", "b", ";">>, <<"\t">>>>,
     <<<<"T", "a", "u", ";">>, <<"U+00C9">>>>,
     <<<<"T", "c", "a", "r", "o", "n", ";">>, <<"U+00C9">>>>,
     <<<<"T", "c", "e", "d", "i", "l", ";">>, <<"U+00C9">>>>,
     <<<<"T", "c", "y", ";">>, <<"U+00C9">>>>,
     <<<<"T", "f", "r", ";">>, <<"U+03D2">>>>,
     <<<<"T", "h", "e", "r", "e", "f", "o", "r", "e", ";">>, <<"U+">>>>,
     <<<<"T", "h", "e", "t", "a", ";">>, <<"U+00C9">>>>,
     <<<<"T", "h", "i", "c", "k", "S", "p", "a", "c", "e", ";">>, <<"U+", "U+">>>>,
     <<<<"T", "h", "i", "n", "S", "p", "a", "c", "e", ";">>, <<"U+">>>>,
     <<<<"T", "i", "l", "d", "e", ";">>, <<"U+">>>>,
     <<<<"T", "i", "l", "d", "e", "E", "q", "u", "a", "l", ";">>, <<"U+">>>>,
     <<<<"T", "i", "l", "d", "e", "F", "u", "l", "l", "E", "q", "u", "a", "l", ";">>, <<"U+">>>>,
     <<<<"T", "i", "l", "d", "e", "T", "i", "l", "d", "e", ";">>, <<"U+">>>>,
     <<<<"T", "o", "p", "f", ";">>, <<"U+03D2">>>>,
     <<<<"T", "r", "i", "p", "l", "e", "D", "o", "t", ";">>, <<"U+">>>>,
     <<<<"T", "s", "c", "r", ";">>, <<"U+03D2">>>>,
     <<<<"T", "s", "t", "r", "o", "k", ";">>, <<"U+00C9">>>>,
     <<<<"U", "a", "c", "u", "t", "e">>, <<"U+00C9">>>>,
     <<<<"U", "a", "c", "u", "t", "e", ";">>, <<"U+00C9">>>>,
     <<<<"U", "a", "r", "r", ";">>, <<"U+">>>>,
     <<<<"U", "a", "r", "r", "o", "c", "i", "r", ";">>, <<"U+">>>>,
     <<<<"U", "b", "r", "c", "y", ";">>, <<"U+00C9">>>>,
     <<<<"U", "b", "r", "e", "v", "e", ";">>, <<"U+00C9">>>>,
     <<<<"U", "c", "i", "r", "c">>, <<"U+00C9">>>>,
     <<<<"U", "c", "i", "r", "c", ";">>, <<"U+00C9">>>>,
     <<<<"U", "c", "y", ";">>, <<"U+00C9">>>>,
     <<<<"U", "d", "b", "l", "a", "c", ";">>, <<"U+00C9">>>>,
     <<<<"U", "f", "r", ";">>, <<"U+03D2">>>>,
     <<<<"U", "g", "r", "a", "v", "e">>, <<"U+00C9">>>>,
     <<<<"U", "g", "r", "a", "v", "e", ";">>, <<"U+00C9">>>>,
     <<<<"U", "m", "a", "c", "r", ";">>, <<"U+00C9">>>>,
     <<<<"U", "n", "d", "e", "r", "B", "a", "r", ";">>, <<"_">>>>,
     <<<<"U", "n", "d", "e", "r", "B", "r", "a", "c", "e", ";">>, <<"U+">>>>,
     <<<<"U", "n", "d", "e", "r", "B", "r", "a", "c", "k", "e", "t", ";">>, <<"U+">>>>,
     <<<<"U", "n", "d", "e", "r", "P", "a", "r", "e", "n", "t", "h", "e", "s", "i", "s", ";">>, <<"U+">>>>,
     <<<<"U", "n", "i", "o", "n", ";">>, <<"U+">>>>,
     <<<<"U", "n", "i", "o", "n", "P", "l", "u", "s", ";">>, <<"U+">>>>,
     <<<<"U", "o", "g", "o", "n", ";">>, <<"U+00C9">>>>,
     <<<<"U", "o", "p", "f", ";">>, <<"U+03D2">>>>,
     <<<<"U", "p", "A", "r", "r", "o", "w", ";">>, <<"U+">>>>,
     <<<<"U", "p", "A", "r", "r", "o", "w", "B", "a", "r", ";">>, <<"U+">>>>,
     <<<<"U", "p", "A", "r", "r", "o", "w", "D", "o", "w", "n", "A", "r", "r", "o", "w", ";">>, <<"U+">>>>,
     <<<<"U", "p", "D", "o", "w", "n", "A", "r", "r", "o", "w", ";">>, <<"U+">>>>,
     <<<<"U", "p", "E", "q", "u", "i", "l", "i", "b", "r", "i", "u", "m", ";">>, <<"U+">>>>,
     <<<<"U", "p", "T", "e", "e", ";">>, <<"U+">>>>,
     <<<<"U", "p", "T", "e", "e", "A", "r", "r", "o", "w", ";">>, <<"U+">>>>,
     <<<<"U", "p", "a", "r", "r", "o", "w", ";">>, <<"U+">>>>,
     <<<<"U", "p", "d", "o", "w", "n", "a", "r", "r", "o", "w", ";">>, <<"U+">>>>,
     <<<<"U", "p", "p", "e", "r", "L", "e", "f", "t", "A", "r", "r", "o", "w", ";">>, <<"U+">>>>,
     <<<<"U", "p", "p", "e", "r", "R", "i", "g", "h", "t", "A", "r", "r", "o", "w", ";">>, <<"U+">>>>,
     <<<<"U", "p", "s", "i", ";">>, <<"U+03D2">>>>,
     <<<<"U", "p", "s", "i", "l", "o", "n", ";">>, <<"U+00C9">>>>,
     <<<<"U", "r", "i", "n", "g", ";">>, <<"U+00C9">>>>,
     <<<<"U", "s", "c", "r", ";">>, <<"U+03D2">>>>,
     <<<<"U", "t", "i", "l", "d", "e", ";">>, <<"U+00C9">>>>,
     <<<<"U", "u", "m", "l">>, <<"U+00C9">>>>,
     <<<<"U", "u", "m", "l", ";">>, <<"U+00C9">>>>,
     <<<<"V", "D", "a", "s", "h", ";">>, <<"U+">>>>,
     <<<<"V", "b", "a", "r", ";">>, <<"U+">>>>,
     <<<<"V", "c", "y", ";">>, <<"U+00C9">>>>,
     <<<<"V", "d", "a", "s", "h", ";">>, <<"U+">>>>,
     <<<<"V", "d", "a", "s", "h", "l", ";">>, <<"U+">>>>,
     <<<<"V", "e", "e", ";">>, <<"U+">>>>,
     <<<<"V", "e", "r", "b", "a", "r", ";">>, <<"U+">>>>,
     <<<<"V", "e", "r", "t", ";">>, <<"U+">>>>,
     <<<<"V", "e", "r", "t", "i", "c", "a", "l", "B", "a", "r", ";">>, <<"U+">>>>,
     <<<<"V", "e", "r", "t", "i", "c", "a", "l", "L", "i", "n", "e", ";">>, <<"|">>>>,
     <<<<"V", "e", "r", "t", "i", "c", "a", "l", "S", "e", "p", "a", "r", "a", "t", "o", "r", ";">>, <<"U+">>>>,
     <<<<"V", "e", "r", "t", "i", "c", "a", "l", "T", "i", "l", "d", "e", ";">>, <<"U+">>>>,
     <<<<"V", "e", "r", "y", "T", "h", "i", "n", "S", "p", "a", "c", "e", ";">>, <<"U+">>>>,
     <<<<"V", "f", "r", ";">>, <<"U+03D2">>>>,
     <<<<"V", "o", "p", "f", ";">>, <<"U+03D2">>>>,
     <<<<"V", "s", "c", "r", ";">>, <<"U+03D2">>>>,
     <<<<"V", "v", "d", "a", "s", "h", ";">>, <<"U+">>>>,
     <<<<"W", "c", "i", "r", "c", ";">>, <<"U+00C9">>>>,
     <<<<"W", "e", "d", "g", "e", ";">>, <<"U+">>>>,
     <<<<"W", "f", "r", ";">>, <<"U+03D2">>>>,
     <<<<"W", "o", "p", "f", ";">>, <<"U+03D2">>>>,
     <<<<"W", "s", "c", "r", ";">>, <<"U+03D2">>>>,
     <<<<"X", "f", "r", ";">>, <<"U+03D2">>>>,
     <<<<"X", "i", ";">>, <<"U+00C9">>>>,
     <<<<"X", "o", "p", "f", ";">>, <<"U+03D2">>>>,
     <<<<"X", "s", "c", "r", ";">>, <<"U+03D2">>>>,
     <<<<"Y", "A", "c", "y", ";">>, <<"U+00C9">>>>,
     <<<<"Y", "I", "c", "y", ";">>, <<"U+00C9">>>>,
     <<<<"Y", "U", "c", "y", ";">>, <<"U+00C9">>>>,
     <<<<"Y", "a", "c", "u", "t", "e">>, <<"U+00C9">>>>,
     <<<<"Y", "a", "c", "u", "t", "e", ";">>, <<"U+00C9">>>>,
     <<<<"Y", "c", "i", "r", "c", ";">>, <<"U+00C9">>>>,
     <<<<"Y", "c", "y", ";">>, <<"U+00C9">>>>,
     <<<<"Y", "f", "r", ";">>, <<"U+03D2">>>>,
     <<<<"Y", "o", "p", "f", ";">>, <<"U+03D2">>>>,
     <<<<"Y", "s", "c", "r", ";">>, <<"U+03D2">>>>,
     <<<<"Y", "u", "m", "l", ";">>, <<"U+00C9">>>>,
     <<<<"Z", "H", "c", "y", ";">>, <<"U+00C9">>>>,
     <<<<"Z", "a", "c", "u", "t", "e", ";">>, <<"U+00C9">>>>,
     <<<<"Z", "c", "a", "r", "o", "n", ";">>, <<"U+00C9">>>>,
     <<<<"Z", "c", "y", ";">>, <<"U+00C9">>>>,
     <<<<"Z", "d", "o", "t", ";">>, <<"U+00C9">>>>,
     <<<<"Z", "e", "r", "o", "W", "i", "d", "t", "h", "S", "p", "a", "c", "e", ";">>, <<"U+">>>>,
     <<<<"Z", "e", "t", "a", ";">>, <<"U+00C9">>>>,
     <<<<"Z", "f", "r", ";">>, <<"U+03D2">>>>,
     <<<<"Z", "o", "p", "f", ";">>, <<"U+03D2">>>>,
     <<<<"Z", "s", "c", "r", ";">>, <<"U+03D2">>>>,
     <<<<"a", "a", "c", "u", "t", "e">>, <<"U+00E9">>>>,
     <<<<"a", "a", "c", "u", "t", "e", ";">>, <<"U+00E9">>>>,
     <<<<"a", "b", "r", "e", "v", "e", ";">>, <<"U+00E9">>>>,
     <<<<"a", "c", ";">>, <<"U+">>>>,
     <<<<"a", "c", "E", ";">>, <<"U+", "U+">>>>,
     <<<<"a", "c", "d", ";">>, <<"U+">>>>,
     <<<<"a", "c", "i", "r", "c">>, <<"U+00E9">>>>,
     <<<<"a", "c", "i", "r", "c", ";">>, <<"U+00E9">>>>,
     <<<<"a", "c", "u", "t", "e">>, <<"U+">>>>,
     <<<<"a", "c", "u", "t", "e", ";">>, <<"U+">>>>,
     <<<<"a", "c", "y", ";">>, <<"U+00E9">>>>,
     <<<<"a", "e", "l", "i", "g">>, <<"U+00E9">>>>,
     <<<<"a", "e", "l", "i", "g", ";">>, <<"U+00E9">>>>,
     <<<<"a", "f", ";">>, <<"U+">>>>,
     <<<<"a", "f", "r", ";">>, <<"U+00E9">>>>,
     <<<<"a", "g", "r", "a", "v", "e">>, <<"U+00E9">>>>,
     <<<<"a", "g", "r", "a", "v", "e", ";">>, <<"U+00E9">>>>,
     <<<<"a", "l", "e", "f", "s", "y", "m", ";">>, <<"U+00E9">>>>,
     <<<<"a", "l", "e", "p", "h", ";">>, <<"U+00E9">>>>,
     <<<<"a", "l", "p", "h", "a", ";">>, <<"U+00E9">>>>,
     <<<<"a", "m", "a", "c", "r", ";">>, <<"U+00E9">>>>,
     <<<<"a", "m", "a", "l", "g", ";">>, <<"U+">>>>,
     <<<<"a", "m", "p">>, <<"&">>>>, <<<<"a", "m", "p", ";">>, <<"&">>>>,
     <<<<"a", "n", "d", ";">>, <<"U+">>>>,
     <<<<"a", "n", "d", "a", "n", "d", ";">>, <<"U+">>>>,
     <<<<"a", "n", "d", "d", ";">>, <<"U+">>>>,
     <<<<"a", "n", "d", "s", "l", "o", "p", "e", ";">>, <<"U+">>>>,
     <<<<"a", "n", "d", "v", ";">>, <<"U+">>>>,
     <<<<"a", "n", "g", ";">>, <<"U+">>>>,
     <<<<"a", "n", "g", "e", ";">>, <<"U+">>>>,
     <<<<"a", "n", "g", "l", "e", ";">>, <<"U+">>>>,
     <<<<"a", "n", "g", "m", "s", "d", ";">>, <<"U+">>>>,
     <<<<"a", "n", "g", "m", "s", "d", "a", "a", ";">>, <<"U+">>>>,
     <<<<"a", "n", "g", "m", "s", "d", "a", "b", ";">>, <<"U+">>>>,
     <<<<"a", "n", "g", "m", "s", "d", "a", "c", ";">>, <<"U+">>>>,
     <<<<"a", "n", "g", "m", "s", "d", "a", "d", ";">>, <<"U+">>>>,
     <<<<"a", "n", "g", "m", "s", "d", "a", "e", ";">>, <<"U+">>>>,
     <<<<"a", "n", "g", "m", "s", "d", "a", "f", ";">>, <<"U+">>>>,
     <<<<"a", "n", "g", "m", "s", "d", "a", "g", ";">>, <<"U+">>>>,
     <<<<"a", "n", "g", "m", "s", "d", "a", "h", ";">>, <<"U+">>>>,
     <<<<"a", "n", "g", "r", "t", ";">>, <<"U+">>>>,
     <<<<"a", "n", "g", "r", "t", "v", "b", ";">>, <<"U+">>>>,
     <<<<"a", "n", "g", "r", "t", "v", "b", "d", ";">>, <<"U+">>>>,
     <<<<"a", "n", "g", "s", "p", "h", ";">>, <<"U+">>>>,
     <<<<"a", "n", "g", "s", "t", ";">>, <<"U+00C9">>>>,
     <<<<"a", "n", "g", "z", "a", "r", "r", ";">>, <<"U+">>>>,
     <<<<"a", "o", "g", "o", "n", ";">>, <<"U+00E9">>>>,
     <<<<"a", "o", "p", "f", ";">>, <<"U+00E9">>>>,
     <<<<"a", "p", ";">>, <<"U+">>>>, <<<<"a", "p", "E", ";">>, <<"U+">>>>,
     <<<<"a", "p", "a", "c", "i", "r", ";">>, <<"U+">>>>,
     <<<<"a", "p", "e", ";">>, <<"U+">>>>,
     <<<<"a", "p", "i", "d", ";">>, <<"U+">>>>,
     <<<<"a", "p", "o", "s", ";">>, <<"'">>>>,
     <<<<"a", "p", "p", "r", "o", "x", ";">>, <<"U+">>>>,
     <<<<"a", "p", "p", "r", "o", "x", "e", "q", ";">>, <<"U+">>>>,
     <<<<"a", "r", "i", "n", "g">>, <<"U+00E9">>>>,
     <<<<"a", "r", "i", "n", "g", ";">>, <<"U+00E9">>>>,
     <<<<"a", "s", "c", "r", ";">>, <<"U+00E9">>>>,
     <<<<"a", "s", "t", ";">>, <<"*">>>>,
     <<<<"a", "s", "y", "m", "p", ";">>, <<"U+">>>>,
     <<<<"a", "s", "y", "m", "p", "e", "q", ";">>, <<"U+">>>>,
     <<<<"a", "t", "i", "l", "d", "e">>, <<"U+00E9">>>>,
     <<<<"a", "t", "i", "l", "d", "e", ";">>, <<"U+00E9">>>>,
     <<<<"a", "u", "m", "l">>, <<"U+00E9">>>>,
     <<<<"a", "u", "m", "l", ";">>, <<"U+00E9">>>>,
     <<<<"a", "w", "c", "o", "n", "i", "n", "t", ";">>, <<"U+">>>>,
     <<<<"a", "w", "i", "n", "t", ";">>, <<"U+">>>>,
     <<<<"b", "N", "o", "t", ";">>, <<"U+">>>>,
     <<<<"b", "a", "c", "k", "c", "o", "n", "g", ";">>, <<"U+">>>>,
     <<<<"b", "a", "c", "k", "e", "p", "s", "i", "l", "o", "n", ";">>, <<"U+">>>>,
     <<<<"b", "a", "c", "k", "p", "r", "i", "m", "e", ";">>, <<"U+">>>>,
     <<<<"b", "a", "c", "k", "s", "i", "m", ";">>, <<"U+">>>>,
     <<<<"b", "a", "c", "k", "s", "i", "m", "e", "q", ";">>, <<"U+">>>>,
     <<<<"b", "a", "r", "v", "e", "e", ";">>, <<"U+">>>>,
     <<<<"b", "a", "r", "w", "e", "d", ";">>, <<"U+">>>>,
     <<<<"b", "a", "r", "w", "e", "d", "g", "e", ";">>, <<"U+">>>>,
     <<<<"b", "b", "r", "k", ";">>, <<"U+">>>>,
     <<<<"b", "b", "r", "k", "t", "b", "r", "k", ";">>, <<"U+">>>>,
     <<<<"b", "c", "o", "n", "g", ";">>, <<"U+">>>>,
     <<<<"b", "c", "y", ";">>, <<"U+00E9">>>>,
     <<<<"b", "d", "q", "u", "o", ";">>, <<"U+">>>>,
     <<<<"b", "e", "c", "a", "u", "s", ";">>, <<"U+">>>>,
     <<<<"b", "e", "c", "a", "u", "s", "e", ";">>, <<"U+">>>>,
     <<<<"b", "e", "m", "p", "t", "y", "v", ";">>, <<"U+">>>>,
     <<<<"b", "e", "p", "s", "i", ";">>, <<"U+">>>>,
     <<<<"b", "e", "r", "n", "o", "u", ";">>, <<"U+03D2">>>>,
     <<<<"b", "e", "t", "a", ";">>, <<"U+00E9">>>>,
     <<<<"b", "e", "t", "h", ";">>, <<"U+00E9">>>>,
     <<<<"b", "e", "t", "w", "e", "e", "n", ";">>, <<"U+">>>>,
     <<<<"b", "f", "r", ";">>, <<"U+00E9">>>>,
     <<<<"b", "i", "g", "c", "a", "p", ";">>, <<"U+">>>>,
     <<<<"b", "i", "g", "c", "i", "r", "c", ";">>, <<"U+">>>>,
     <<<<"b", "i", "g", "c", "u", "p", ";">>, <<"U+">>>>,
     <<<<"b", "i", "g", "o", "d", "o", "t", ";">>, <<"U+">>>>,
     <<<<"b", "i", "g", "o", "p", "l", "u", "s", ";">>, <<"U+">>>>,
     <<<<"b", "i", "g", "o", "t", "i", "m", "e", "s", ";">>, <<"U+">>>>,
     <<<<"b", "i", "g", "s", "q", "c", "u", "p", ";">>, <<"U+">>>>,
     <<<<"b", "i", "g", "s", "t", "a", "r", ";">>, <<"U+">>>>,
     <<<<"b", "i", "g", "t", "r", "i", "a", "n", "g", "l", "e", "d", "o", "w", "n", ";">>, <<"U+">>>>,
     <<<<"b", "i", "g", "t", "r", "i", "a", "n", "g", "l", "e", "u", "p", ";">>, <<"U+">>>>,
     <<<<"b", "i", "g", "u", "p", "l", "u", "s", ";">>, <<"U+">>>>,
     <<<<"b", "i", "g", "v", "e", "e", ";">>, <<"U+">>>>,
     <<<<"b", "i", "g", "w", "e", "d", "g", "e", ";">>, <<"U+">>>>,
     <<<<"b", "k", "a", "r", "o", "w", ";">>, <<"U+">>>>,
     <<<<"b", "l", "a", "c", "k", "l", "o", "z", "e", "n", "g", "e", ";">>, <<"U+">>>>,
     <<<<"b", "l", "a", "c", "k", "s", "q", "u", "a", "r", "e", ";">>, <<"U+">>>>,
     <<<<"b", "l", "a", "c", "k", "t", "r", "i", "a", "n", "g", "l", "e", ";">>, <<"U+">>>>,
     <<<<"b", "l", "a", "c", "k", "t", "r", "i", "a", "n", "g", "l", "e", "d", "o", "w", "n", ";">>, <<"U+">>>>,
     <<<<"b", "l", "a", "c", "k", "t", "r", "i", "a", "n", "g", "l", "e", "l", "e", "f", "t", ";">>, <<"U+">>>>,
     <<<<"b", "l", "a", "c", "k", "t", "r", "i", "a", "n", "g", "l", "e", "r", "i", "g", "h", "t", ";">>, <<"U+">>>>,
     <<<<"b", "l", "a", "n", "k", ";">>, <<"U+">>>>,
     <<<<"b", "l", "k", "1", "2", ";">>, <<"U+">>>>,
     <<<<"b", "l", "k", "1", "4", ";">>, <<"U+">>>>,
     <<<<"b", "l", "k", "3", "4", ";">>, <<"U+">>>>,
     <<<<"b", "l", "o", "c", "k", ";">>, <<"U+">>>>,
     <<<<"b", "n", "e", ";">>, <<"=", "U+">>>>,
     <<<<"b", "n", "e", "q", "u", "i", "v", ";">>, <<"U+", "U+">>>>,
     <<<<"b", "n", "o", "t", ";">>, <<"U+">>>>,
     <<<<"b", "o", "p", "f", ";">>, <<"U+00E9">>>>,
     <<<<"b", "o", "t", ";">>, <<"U+">>>>,
     <<<<"b", "o", "t", "t", "o", "m", ";">>, <<"U+">>>>,
     <<<<"b", "o", "w", "t", "i", "e", ";">>, <<"U+">>>>,
     <<<<"b", "o", "x", "D", "L", ";">>, <<"U+">>>>,
     <<<<"b", "o", "x", "D", "R", ";">>, <<"U+">>>>,
     <<<<"b", "o", "x", "D", "l", ";">>, <<"U+">>>>,
     <<<<"b", "o", "x", "D", "r", ";">>, <<"U+">>>>,
     <<<<"b", "o", "x", "H", ";">>, <<"U+">>>>,
     <<<<"b", "o", "x", "H", "D", ";">>, <<"U+">>>>,
     <<<<"b", "o", "x", "H", "U", ";">>, <<"U+">>>>,
     <<<<"b", "o", "x", "H", "d", ";">>, <<"U+">>>>,
     <<<<"b", "o", "x", "H", "u", ";">>, <<"U+">>>>,
     <<<<"b", "o", "x", "U", "L", ";">>, <<"U+">>>>,
     <<<<"b", "o", "x", "U", "R", ";">>, <<"U+">>>>,
     <<<<"b", "o", "x", "U", "l", ";">>, <<"U+">>>>,
     <<<<"b", "o", "x", "U", "r", ";">>, <<"U+">>>>,
     <<<<"b", "o", "x", "V", ";">>, <<"U+">>>>,
     <<<<"b", "o", "x", "V", "H", ";">>, <<"U+">>>>,
     <<<<"b", "o", "x", "V", "L", ";">>, <<"U+">>>>,
     <<<<"b", "o", "x", "V", "R", ";">>, <<"U+">>>>,
     <<<<"b", "o", "x", "V", "h", ";">>, <<"U+">>>>,
     <<<<"b", "o", "x", "V", "l", ";">>, <<"U+">>>>,
     <<<<"b", "o", "x", "V", "r", ";">>, <<"U+">>>>,
     <<<<"b", "o", "x", "b", "o", "x", ";">>, <<"U+">>>>,
     <<<<"b", "o", "x", "d", "L", ";">>, <<"U+">>>>,
     <<<<"b", "o", "x", "d", "R", ";">>, <<"U+">>>>,
     <<<<"b", "o", "x", "d", "l", ";">>, <<"U+">>>>,
     <<<<"b", "o", "x", "d", "r", ";">>, <<"U+">>>>,
     <<<<"b", "o", "x", "h", ";">>, <<"U+">>>>,
     <<<<"b", "o", "x", "h", "D", ";">>, <<"U+">>>>,
     <<<<"b", "o", "x", "h", "U", ";">>, <<"U+">>>>,
     <<<<"b", "o", "x", "h", "d", ";">>, <<"U+">>>>,
     <<<<"b", "o", "x", "h", "u", ";">>, <<"U+">>>>,
     <<<<"b", "o", "x", "m", "i", "n", "u", "s", ";">>, <<"U+">>>>,
     <<<<"b", "o", "x", "p", "l", "u", "s", ";">>, <<"U+">>>>,
     <<<<"b", "o", "x", "t", "i", "m", "e", "s", ";">>, <<"U+">>>>,
     <<<<"b", "o", "x", "u", "L", ";">>, <<"U+">>>>,
     <<<<"b", "o", "x", "u", "R", ";">>, <<"U+">>>>,
     <<<<"b", "o", "x", "u", "l", ";">>, <<"U+">>>>,
     <<<<"b", "o", "x", "u", "r", ";">>, <<"U+">>>>,
     <<<<"b", "o", "x", "v", ";">>, <<"U+">>>>,
     <<<<"b", "o", "x", "v", "H", ";">>, <<"U+">>>>,
     <<<<"b", "o", "x", "v", "L", ";">>, <<"U+">>>>,
     <<<<"b", "o", "x", "v", "R", ";">>, <<"U+">>>>,
     <<<<"b", "o", "x", "v", "h", ";">>, <<"U+">>>>,
     <<<<"b", "o", "x", "v", "l", ";">>, <<"U+">>>>,
     <<<<"b", "o", "x", "v", "r", ";">>, <<"U+">>>>,
     <<<<"b", "p", "r", "i", "m", "e", ";">>, <<"U+">>>>,
     <<<<"b", "r", "e", "v", "e", ";">>, <<"U+">>>>,
     <<<<"b", "r", "v", "b", "a", "r">>, <<"U+">>>>,
     <<<<"b", "r", "v", "b", "a", "r", ";">>, <<"U+">>>>,
     <<<<"b", "s", "c", "r", ";">>, <<"U+00E9">>>>,
     <<<<"b", "s", "e", "m", "i", ";">>, <<"U+">>>>,
     <<<<"b", "s", "i", "m", ";">>, <<"U+">>>>,
     <<<<"b", "s", "i", "m", "e", ";">>, <<"U+">>>>,
     <<<<"b", "s", "o", "l", ";">>, <<"\\">>>>,
     <<<<"b", "s", "o", "l", "b", ";">>, <<"U+">>>>,
     <<<<"b", "s", "o", "l", "h", "s", "u", "b", ";">>, <<"U+">>>>,
     <<<<"b", "u", "l", "l", ";">>, <<"U+">>>>,
     <<<<"b", "u", "l", "l", "e", "t", ";">>, <<"U+">>>>,
     <<<<"b", "u", "m", "p", ";">>, <<"U+">>>>,
     <<<<"b", "u", "m", "p", "E", ";">>, <<"U+">>>>,
     <<<<"b", "u", "m", "p", "e", ";">>, <<"U+">>>>,
     <<<<"b", "u", "m", "p", "e", "q", ";">>, <<"U+">>>>,
     <<<<"c", "a", "c", "u", "t", "e", ";">>, <<"U+00E9">>>>,
     <<<<"c", "a", "p", ";">>, <<"U+">>>>,
     <<<<"c", "a", "p", "a", "n", "d", ";">>, <<"U+">>>>,
     <<<<"c", "a", "p", "b", "r", "c", "u", "p", ";">>, <<"U+">>>>,
     <<<<"c", "a", "p", "c", "a", "p", ";">>, <<"U+">>>>,
     <<<<"c", "a", "p", "c", "u", "p", ";">>, <<"U+">>>>,
     <<<<"c", "a", "p", "d", "o", "t", ";">>, <<"U+">>>>,
     <<<<"c", "a", "p", "s", ";">>, <<"U+", "U+">>>>,
     <<<<"c", "a", "r", "e", "t", ";">>, <<"U+">>>>,
     <<<<"c", "a", "r", "o", "n", ";">>, <<"U+00E9">>>>,
     <<<<"c", "c", "a", "p", "s", ";">>, <<"U+">>>>,
     <<<<"c", "c", "a", "r", "o", "n", ";">>, <<"U+00E9">>>>,
     <<<<"c", "c", "e", "d", "i", "l">>, <<"U+00E9">>>>,
     <<<<"c", "c", "e", "d", "i", "l", ";">>, <<"U+00E9">>>>,
     <<<<"c", "c", "i", "r", "c", ";">>, <<"U+00E9">>>>,
     <<<<"c", "c", "u", "p", "s", ";">>, <<"U+">>>>,
     <<<<"c", "c", "u", "p", "s", "s", "m", ";">>, <<"U+">>>>,
     <<<<"c", "d", "o", "t", ";">>, <<"U+00E9">>>>,
     <<<<"c", "e", "d", "i", "l">>, <<"U+">>>>,
     <<<<"c", "e", "d", "i", "l", ";">>, <<"U+">>>>,
     <<<<"c", "e", "m", "p", "t", "y", "v", ";">>, <<"U+">>>>,
     <<<<"c", "e", "n", "t">>, <<"U+">>>>,
     <<<<"c", "e", "n", "t", ";">>, <<"U+">>>>,
     <<<<"c", "e", "n", "t", "e", "r", "d", "o", "t", ";">>, <<"U+">>>>,
     <<<<"c", "f", "r", ";">>, <<"U+00E9">>>>,
     <<<<"c", "h", "c", "y", ";">>, <<"U+00E9">>>>,
     <<<<"c", "h", "e", "c", "k", ";">>, <<"U+">>>>,
     <<<<"c", "h", "e", "c", "k", "m", "a", "r", "k", ";">>, <<"U+">>>>,
     <<<<"c", "h", "i", ";">>, <<"U+00E9">>>>,
     <<<<"c", "i", "r", ";">>, <<"U+">>>>,
     <<<<"c", "i", "r", "E", ";">>, <<"U+">>>>,
     <<<<"c", "i", "r", "c", ";">>, <<"U+00E9">>>>,
     <<<<"c", "i", "r", "c", "e", "q", ";">>, <<"U+">>>>,
     <<<<"c", "i", "r", "c", "l", "e", "a", "r", "r", "o", "w", "l", "e", "f", "t", ";">>, <<"U+">>>>,
     <<<<"c", "i", "r", "c", "l", "e", "a", "r", "r", "o", "w", "r", "i", "g", "h", "t", ";">>, <<"U+">>>>,
     <<<<"c", "i", "r", "c", "l", "e", "d", "R", ";">>, <<"U+">>>>,
     <<<<"c", "i", "r", "c", "l", "e", "d", "S", ";">>, <<"U+24B6">>>>,
     <<<<"c", "i", "r", "c", "l", "e", "d", "a", "s", "t", ";">>, <<"U+">>>>,
     <<<<"c", "i", "r", "c", "l", "e", "d", "c", "i", "r", "c", ";">>, <<"U+">>>>,
     <<<<"c", "i", "r", "c", "l", "e", "d", "d", "a", "s", "h", ";">>, <<"U+">>>>,
     <<<<"c", "i", "r", "e", ";">>, <<"U+">>>>,
     <<<<"c", "i", "r", "f", "n", "i", "n", "t", ";">>, <<"U+">>>>,
     <<<<"c", "i", "r", "m", "i", "d", ";">>, <<"U+">>>>,
     <<<<"c", "i", "r", "s", "c", "i", "r", ";">>, <<"U+">>>>,
     <<<<"c", "l", "u", "b", "s", ";">>, <<"U+">>>>,
     <<<<"c", "l", "u", "b", "s", "u", "i", "t", ";">>, <<"U+">>>>,
     <<<<"c", "o", "l", "o", "n", ";">>, <<":">>>>,
     <<<<"c", "o", "l", "o", "n", "e", ";">>, <<"U+">>>>,
     <<<<"c", "o", "l", "o", "n", "e", "q", ";">>, <<"U+">>>>,
     <<<<"c", "o", "m", "m", "a", ";">>, <<",">>>>,
     <<<<"c", "o", "m", "m", "a", "t", ";">>, <<"@">>>>,
     <<<<"c", "o", "m", "p", ";">>, <<"U+">>>>,
     <<<<"c", "o", "m", "p", "f", "n", ";">>, <<"U+">>>>,
     <<<<"c", "o", "m", "p", "l", "e", "m", "e", "n", "t", ";">>, <<"U+">>>>,
     <<<<"c", "o", "m", "p", "l", "e", "x", "e", "s", ";">>, <<"U+03D2">>>>,
     <<<<"c", "o", "n", "g", ";">>, <<"U+">>>>,
     <<<<"c", "o", "n", "g", "d", "o", "t", ";">>, <<"U+">>>>,
     <<<<"c", "o", "n", "i", "n", "t", ";">>, <<"U+">>>>,
     <<<<"c", "o", "p", "f", ";">>, <<"U+00E9">>>>,
     <<<<"c", "o", "p", "r", "o", "d", ";">>, <<"U+">>>>,
     <<<<"c", "o", "p", "y">>, <<"U+">>>>,
     <<<<"c", "o", "p", "y", ";">>, <<"U+">>>>,
     <<<<"c", "o", "p", "y", "s", "r", ";">>, <<"U+">>>>,
     <<<<"c", "r", "a", "r", "r", ";">>, <<"U+">>>>,
     <<<<"c", "r", "o", "s", "s", ";">>, <<"U+">>>>,
     <<<<"c", "s", "c", "r", ";">>, <<"U+00E9">>>>,
     <<<<"c", "s", "u", "b", ";">>, <<"U+">>>>,
     <<<<"c", "s", "u", "b", "e", ";">>, <<"U+">>>>,
     <<<<"c", "s", "u", "p", ";">>, <<"U+">>>>,
     <<<<"c", "s", "u", "p", "e", ";">>, <<"U+">>>>,
     <<<<"c", "t", "d", "o", "t", ";">>, <<"U+">>>>,
     <<<<"c", "u", "d", "a", "r", "r", "l", ";">>, <<"U+">>>>,
     <<<<"c", "u", "d", "a", "r", "r", "r", ";">>, <<"U+">>>>,
     <<<<"c", "u", "e", "p", "r", ";">>, <<"U+">>>>,
     <<<<"c", "u", "e", "s", "c", ";">>, <<"U+">>>>,
     <<<<"c", "u", "l", "a", "r", "r", ";">>, <<"U+">>>>,
     <<<<"c", "u", "l", "a", "r", "r", "p", ";">>, <<"U+">>>>,
     <<<<"c", "u", "p", ";">>, <<"U+">>>>,
     <<<<"c", "u", "p", "b", "r", "c", "a", "p", ";">>, <<"U+">>>>,
     <<<<"c", "u", "p", "c", "a", "p", ";">>, <<"U+">>>>,
     <<<<"c", "u", "p", "c", "u", "p", ";">>, <<"U+">>>>,
     <<<<"c", "u", "p", "d", "o", "t", ";">>, <<"U+">>>>,
     <<<<"c", "u", "p", "o", "r", ";">>, <<"U+">>>>,
     <<<<"c", "u", "p", "s", ";">>, <<"U+", "U+">>>>,
     <<<<"c", "u", "r", "a", "r", "r", ";">>, <<"U+">>>>,
     <<<<"c", "u", "r", "a", "r", "r", "m", ";">>, <<"U+">>>>,
     <<<<"c", "u", "r", "l", "y", "e", "q", "p", "r", "e", "c", ";">>, <<"U+">>>>,
     <<<<"c", "u", "r", "l", "y", "e", "q", "s", "u", "c", "c", ";">>, <<"U+">>>>,
     <<<<"c", "u", "r", "l", "y", "v", "e", "e", ";">>, <<"U+">>>>,
     <<<<"c", "u", "r", "l", "y", "w", "e", "d", "g", "e", ";">>, <<"U+">>>>,
     <<<<"c", "u", "r", "r", "e", "n">>, <<"U+">>>>,
     <<<<"c", "u", "r", "r", "e", "n", ";">>, <<"U+">>>>,
     <<<<"c", "u", "r", "v", "e", "a", "r", "r", "o", "w", "l", "e", "f", "t", ";">>, <<"U+">>>>,
     <<<<"c", "u", "r", "v", "e", "a", "r", "r", "o", "w", "r", "i", "g", "h", "t", ";">>, <<"U+">>>>,
     <<<<"c", "u", "v", "e", "e", ";">>, <<"U+">>>>,
     <<<<"c", "u", "w", "e", "d", ";">>, <<"U+">>>>,
     <<<<"c", "w", "c", "o", "n", "i", "n", "t", ";">>, <<"U+">>>>,
     <<<<"c", "w", "i", "n", "t", ";">>, <<"U+">>>>,
     <<<<"c", "y", "l", "c", "t", "y", ";">>, <<"U+">>>>,
     <<<<"d", "A", "r", "r", ";">>, <<"U+">>>>,
     <<<<"d", "H", "a", "r", ";">>, <<"U+">>>>,
     <<<<"d", "a", "g", "g", "e", "r", ";">>, <<"U+">>>>,
     <<<<"d", "a", "l", "e", "t", "h", ";">>, <<"U+00E9">>>>,
     <<<<"d", "a", "r", "r", ";">>, <<"U+">>>>,
     <<<<"d", "a", "s", "h", ";">>, <<"U+">>>>,
     <<<<"d", "a", "s", "h", "v", ";">>, <<"U+">>>>,
     <<<<"d", "b", "k", "a", "r", "o", "w", ";">>, <<"U+">>>>,
     <<<<"d", "b", "l", "a", "c", ";">>, <<"U+">>>>,
     <<<<"d", "c", "a", "r", "o", "n", ";">>, <<"U+00E9">>>>,
     <<<<"d", "c", "y", ";">>, <<"U+00E9">>>>,
     <<<<"d", "d", ";">>, <<"U+00E9">>>>,
     <<<<"d", "d", "a", "g", "g", "e", "r", ";">>, <<"U+">>>>,
     <<<<"d", "d", "a", "r", "r", ";">>, <<"U+">>>>,
     <<<<"d", "d", "o", "t", "s", "e", "q", ";">>, <<"U+">>>>,
     <<<<"d", "e", "g">>, <<"U+">>>>, <<<<"d", "e", "g", ";">>, <<"U+">>>>,
     <<<<"d", "e", "l", "t", "a", ";">>, <<"U+00E9">>>>,
     <<<<"d", "e", "m", "p", "t", "y", "v", ";">>, <<"U+">>>>,
     <<<<"d", "f", "i", "s", "h", "t", ";">>, <<"U+">>>>,
     <<<<"d", "f", "r", ";">>, <<"U+00E9">>>>,
     <<<<"d", "h", "a", "r", "l", ";">>, <<"U+">>>>,
     <<<<"d", "h", "a", "r", "r", ";">>, <<"U+">>>>,
     <<<<"d", "i", "a", "m", ";">>, <<"U+">>>>,
     <<<<"d", "i", "a", "m", "o", "n", "d", ";">>, <<"U+">>>>,
     <<<<"d", "i", "a", "m", "o", "n", "d", "s", "u", "i", "t", ";">>, <<"U+">>>>,
     <<<<"d", "i", "a", "m", "s", ";">>, <<"U+">>>>,
     <<<<"d", "i", "e", ";">>, <<"U+">>>>,
     <<<<"d", "i", "g", "a", "m", "m", "a", ";">>, <<"U+00E9">>>>,
     <<<<"d", "i", "s", "i", "n", ";">>, <<"U+">>>>,
     <<<<"d", "i", "v", ";">>, <<"U+">>>>,
     <<<<"d", "i", "v", "i", "d", "e">>, <<"U+">>>>,
     <<<<"d", "i", "v", "i", "d", "e", ";">>, <<"U+">>>>,
     <<<<"d", "i", "v", "i", "d", "e", "o", "n", "t", "i", "m", "e", "s", ";">>, <<"U+">>>>,
     <<<<"d", "i", "v", "o", "n", "x", ";">>, <<"U+">>>>,
     <<<<"d", "j", "c", "y", ";">>, <<"U+00E9">>>>,
     <<<<"d", "l", "c", "o", "r", "n", ";">>, <<"U+">>>>,
     <<<<"d", "l", "c", "r", "o", "p", ";">>, <<"U+">>>>,
     <<<<"d", "o", "l", "l", "a", "r", ";">>, <<"$">>>>,
     <<<<"d", "o", "p", "f", ";">>, <<"U+00E9">>>>,
     <<<<"d", "o", "t", ";">>, <<"U+">>>>,
     <<<<"d", "o", "t", "e", "q", ";">>, <<"U+">>>>,
     <<<<"d", "o", "t", "e", "q", "d", "o", "t", ";">>, <<"U+">>>>,
     <<<<"d", "o", "t", "m", "i", "n", "u", "s", ";">>, <<"U+">>>>,
     <<<<"d", "o", "t", "p", "l", "u", "s", ";">>, <<"U+">>>>,
     <<<<"d", "o", "t", "s", "q", "u", "a", "r", "e", ";">>, <<"U+">>>>,
     <<<<"d", "o", "u", "b", "l", "e", "b", "a", "r", "w", "e", "d", "g", "e", ";">>, <<"U+">>>>,
     <<<<"d", "o", "w", "n", "a", "r", "r", "o", "w", ";">>, <<"U+">>>>,
     <<<<"d", "o", "w", "n", "d", "o", "w", "n", "a", "r", "r", "o", "w", "s", ";">>, <<"U+">>>>,
     <<<<"d", "o", "w", "n", "h", "a", "r", "p", "o", "o", "n", "l", "e", "f", "t", ";">>, <<"U+">>>>,
     <<<<"d", "o", "w", "n", "h", "a", "r", "p", "o", "o", "n", "r", "i", "g", "h", "t", ";">>, <<"U+">>>>,
     <<<<"d", "r", "b", "k", "a", "r", "o", "w", ";">>, <<"U+">>>>,
     <<<<"d", "r", "c", "o", "r", "n", ";">>, <<"U+">>>>,
     <<<<"d", "r", "c", "r", "o", "p", ";">>, <<"U+">>>>,
     <<<<"d", "s", "c", "r", ";">>, <<"U+00E9">>>>,
     <<<<"d", "s", "c", "y", ";">>, <<"U+00E9">>>>,
     <<<<"d", "s", "o", "l", ";">>, <<"U+">>>>,
     <<<<"d", "s", "t", "r", "o", "k", ";">>, <<"U+00E9">>>>,
     <<<<"d", "t", "d", "o", "t", ";">>, <<"U+">>>>,
     <<<<"d", "t", "r", "i", ";">>, <<"U+">>>>,
     <<<<"d", "t", "r", "i", "f", ";">>, <<"U+">>>>,
     <<<<"d", "u", "a", "r", "r", ";">>, <<"U+">>>>,
     <<<<"d", "u", "h", "a", "r", ";">>, <<"U+">>>>,
     <<<<"d", "w", "a", "n", "g", "l", "e", ";">>, <<"U+">>>>,
     <<<<"d", "z", "c", "y", ";">>, <<"U+00E9">>>>,
     <<<<"d", "z", "i", "g", "r", "a", "r", "r", ";">>, <<"U+">>>>,
     <<<<"e", "D", "D", "o", "t", ";">>, <<"U+">>>>,
     <<<<"e", "D", "o", "t", ";">>, <<"U+">>>>,
     <<<<"e", "a", "c", "u", "t", "e">>, <<"U+00E9">>>>,
     <<<<"e", "a", "c", "u", "t", "e", ";">>, <<"U+00E9">>>>,
     <<<<"e", "a", "s", "t", "e", "r", ";">>, <<"U+">>>>,
     <<<<"e", "c", "a", "r", "o", "n", ";">>, <<"U+00E9">>>>,
     <<<<"e", "c", "i", "r", ";">>, <<"U+">>>>,
     <<<<"e", "c", "i", "r", "c">>, <<"U+00E9">>>>,
     <<<<"e", "c", "i", "r", "c", ";">>, <<"U+00E9">>>>,
     <<<<"e", "c", "o", "l", "o", "n", ";">>, <<"U+">>>>,
     <<<<"e", "c", "y", ";">>, <<"U+00E9">>>>,
     <<<<"e", "d", "o", "t", ";">>, <<"U+00E9">>>>,
     <<<<"e", "e", ";">>, <<"U+00E9">>>>,
     <<<<"e", "f", "D", "o", "t", ";">>, <<"U+">>>>,
     <<<<"e", "f", "r", ";">>, <<"U+00E9">>>>,
     <<<<"e", "g", ";">>, <<"U+">>>>,
     <<<<"e", "g", "r", "a", "v", "e">>, <<"U+00E9">>>>,
     <<<<"e", "g", "r", "a", "v", "e", ";">>, <<"U+00E9">>>>,
     <<<<"e", "g", "s", ";">>, <<"U+">>>>,
     <<<<"e", "g", "s", "d", "o", "t", ";">>, <<"U+">>>>,
     <<<<"e", "l", ";">>, <<"U+">>>>,
     <<<<"e", "l", "i", "n", "t", "e", "r", "s", ";">>, <<"U+">>>>,
     <<<<"e", "l", "l", ";">>, <<"U+00E9">>>>,
     <<<<"e", "l", "s", ";">>, <<"U+">>>>,
     <<<<"e", "l", "s", "d", "o", "t", ";">>, <<"U+">>>>,
     <<<<"e", "m", "a", "c", "r", ";">>, <<"U+00E9">>>>,
     <<<<"e", "m", "p", "t", "y", ";">>, <<"U+">>>>,
     <<<<"e", "m", "p", "t", "y", "s", "e", "t", ";">>, <<"U+">>>>,
     <<<<"e", "m", "p", "t", "y", "v", ";">>, <<"U+">>>>,
     <<<<"e", "m", "s", "p", "1", "3", ";">>, <<"U+">>>>,
     <<<<"e", "m", "s", "p", "1", "4", ";">>, <<"U+">>>>,
     <<<<"e", "m", "s", "p", ";">>, <<"U+">>>>,
     <<<<"e", "n", "g", ";">>, <<"U+00E9">>>>,
     <<<<"e", "n", "s", "p", ";">>, <<"U+">>>>,
     <<<<"e", "o", "g", "o", "n", ";">>, <<"U+00E9">>>>,
     <<<<"e", "o", "p", "f", ";">>, <<"U+00E9">>>>,
     <<<<"e", "p", "a", "r", ";">>, <<"U+">>>>,
     <<<<"e", "p", "a", "r", "s", "l", ";">>, <<"U+">>>>,
     <<<<"e", "p", "l", "u", "s", ";">>, <<"U+">>>>,
     <<<<"e", "p", "s", "i", ";">>, <<"U+00E9">>>>,
     <<<<"e", "p", "s", "i", "l", "o", "n", ";">>, <<"U+00E9">>>>,
     <<<<"e", "p", "s", "i", "v", ";">>, <<"U+00E9">>>>,
     <<<<"e", "q", "c", "i", "r", "c", ";">>, <<"U+">>>>,
     <<<<"e", "q", "c", "o", "l", "o", "n", ";">>, <<"U+">>>>,
     <<<<"e", "q", "s", "i", "m", ";">>, <<"U+">>>>,
     <<<<"e", "q", "s", "l", "a", "n", "t", "g", "t", "r", ";">>, <<"U+">>>>,
     <<<<"e", "q", "s", "l", "a", "n", "t", "l", "e", "s", "s", ";">>, <<"U+">>>>,
     <<<<"e", "q", "u", "a", "l", "s", ";">>, <<"=">>>>,
     <<<<"e", "q", "u", "e", "s", "t", ";">>, <<"U+">>>>,
     <<<<"e", "q", "u", "i", "v", ";">>, <<"U+">>>>,
     <<<<"e", "q", "u", "i", "v", "D", "D", ";">>, <<"U+">>>>,
     <<<<"e", "q", "v", "p", "a", "r", "s", "l", ";">>, <<"U+">>>>,
     <<<<"e", "r", "D", "o", "t", ";">>, <<"U+">>>>,
     <<<<"e", "r", "a", "r", "r", ";">>, <<"U+">>>>,
     <<<<"e", "s", "c", "r", ";">>, <<"U+00E9">>>>,
     <<<<"e", "s", "d", "o", "t", ";">>, <<"U+">>>>,
     <<<<"e", "s", "i", "m", ";">>, <<"U+">>>>,
     <<<<"e", "t", "a", ";">>, <<"U+00E9">>>>,
     <<<<"e", "t", "h">>, <<"U+00E9">>>>,
     <<<<"e", "t", "h", ";">>, <<"U+00E9">>>>,
     <<<<"e", "u", "m", "l">>, <<"U+00E9">>>>,
     <<<<"e", "u", "m", "l", ";">>, <<"U+00E9">>>>,
     <<<<"e", "u", "r", "o", ";">>, <<"U+">>>>,
     <<<<"e", "x", "c", "l", ";">>, <<"!">>>>,
     <<<<"e", "x", "i", "s", "t", ";">>, <<"U+">>>>,
     <<<<"e", "x", "p", "e", "c", "t", "a", "t", "i", "o", "n", ";">>, <<"U+03D2">>>>,
     <<<<"e", "x", "p", "o", "n", "e", "n", "t", "i", "a", "l", "e", ";">>, <<"U+00E9">>>>,
     <<<<"f", "a", "l", "l", "i", "n", "g", "d", "o", "t", "s", "e", "q", ";">>, <<"U+">>>>,
     <<<<"f", "c", "y", ";">>, <<"U+00E9">>>>,
     <<<<"f", "e", "m", "a", "l", "e", ";">>, <<"U+">>>>,
     <<<<"f", "f", "i", "l", "i", "g", ";">>, <<"U+00E9">>>>,
     <<<<"f", "f", "l", "i", "g", ";">>, <<"U+00E9">>>>,
     <<<<"f", "f", "l", "l", "i", "g", ";">>, <<"U+00E9">>>>,
     <<<<"f", "f", "r", ";">>, <<"U+00E9">>>>,
     <<<<"f", "i", "l", "i", "g", ";">>, <<"U+00E9">>>>,
     <<<<"f", "j", "l", "i", "g", ";">>, <<"f", "j">>>>,
     <<<<"f", "l", "a", "t", ";">>, <<"U+">>>>,
     <<<<"f", "l", "l", "i", "g", ";">>, <<"U+00E9">>>>,
     <<<<"f", "l", "t", "n", "s", ";">>, <<"U+">>>>,
     <<<<"f", "n", "o", "f", ";">>, <<"U+00E9">>>>,
     <<<<"f", "o", "p", "f", ";">>, <<"U+00E9">>>>,
     <<<<"f", "o", "r", "a", "l", "l", ";">>, <<"U+">>>>,
     <<<<"f", "o", "r", "k", ";">>, <<"U+">>>>,
     <<<<"f", "o", "r", "k", "v", ";">>, <<"U+">>>>,
     <<<<"f", "p", "a", "r", "t", "i", "n", "t", ";">>, <<"U+">>>>,
     <<<<"f", "r", "a", "c", "1", "2">>, <<"U+00E9">>>>,
     <<<<"f", "r", "a", "c", "1", "2", ";">>, <<"U+00E9">>>>,
     <<<<"f", "r", "a", "c", "1", "3", ";">>, <<"U+00E9">>>>,
     <<<<"f", "r", "a", "c", "1", "4">>, <<"U+00E9">>>>,
     <<<<"f", "r", "a", "c", "1", "4", ";">>, <<"U+00E9">>>>,
     <<<<"f", "r", "a", "c", "1", "5", ";">>, <<"U+00E9">>>>,
     <<<<"f", "r", "a", "c", "1", "6", ";">>, <<"U+00E9">>>>,
     <<<<"f", "r", "a", "c", "1", "8", ";">>, <<"U+00E9">>>>,
     <<<<"f", "r", "a", "c", "2", "3", ";">>, <<"U+00E9">>>>,
     <<<<"f", "r", "a", "c", "2", "5", ";">>, <<"U+00E9">>>>,
     <<<<"f", "r", "a", "c", "3", "4">>, <<"U+00E9">>>>,
     <<<<"f", "r", "a", "c", "3", "4", ";">>, <<"U+00E9">>>>,
     <<<<"f", "r", "a", "c", "3", "5", ";">>, <<"U+00E9">>>>,
     <<<<"f", "r", "a", "c", "3", "8", ";">>, <<"U+00E9">>>>,
     <<<<"f", "r", "a", "c", "4", "5", ";">>, <<"U+00E9">>>>,
     <<<<"f", "r", "a", "c", "5", "6", ";">>, <<"U+00E9">>>>,
     <<<<"f", "r", "a", "c", "5", "8", ";">>, <<"U+00E9">>>>,
     <<<<"f", "r", "a", "c", "7", "8", ";">>, <<"U+00E9">>>>,
     <<<<"f", "r", "a", "s", "l", ";">>, <<"U+">>>>,
     <<<<"f", "r", "o", "w", "n", ";">>, <<"U+">>>>,
     <<<<"f", "s", "c", "r", ";">>, <<"U+00E9">>>>,
     <<<<"g", "E", ";">>, <<"U+">>>>, <<<<"g", "E", "l", ";">>, <<"U+">>>>,
     <<<<"g", "a", "c", "u", "t", "e", ";">>, <<"U+00E9">>>>,
     <<<<"g", "a", "m", "m", "a", ";">>, <<"U+00E9">>>>,
     <<<<"g", "a", "m", "m", "a", "d", ";">>, <<"U+00E9">>>>,
     <<<<"g", "a", "p", ";">>, <<"U+">>>>,
     <<<<"g", "b", "r", "e", "v", "e", ";">>, <<"U+00E9">>>>,
     <<<<"g", "c", "i", "r", "c", ";">>, <<"U+00E9">>>>,
     <<<<"g", "c", "y", ";">>, <<"U+00E9">>>>,
     <<<<"g", "d", "o", "t", ";">>, <<"U+00E9">>>>,
     <<<<"g", "e", ";">>, <<"U+">>>>, <<<<"g", "e", "l", ";">>, <<"U+">>>>,
     <<<<"g", "e", "q", ";">>, <<"U+">>>>,
     <<<<"g", "e", "q", "q", ";">>, <<"U+">>>>,
     <<<<"g", "e", "q", "s", "l", "a", "n", "t", ";">>, <<"U+">>>>,
     <<<<"g", "e", "s", ";">>, <<"U+">>>>,
     <<<<"g", "e", "s", "c", "c", ";">>, <<"U+">>>>,
     <<<<"g", "e", "s", "d", "o", "t", ";">>, <<"U+">>>>,
     <<<<"g", "e", "s", "d", "o", "t", "o", ";">>, <<"U+">>>>,
     <<<<"g", "e", "s", "d", "o", "t", "o", "l", ";">>, <<"U+">>>>,
     <<<<"g", "e", "s", "l", ";">>, <<"U+", "U+">>>>,
     <<<<"g", "e", "s", "l", "e", "s", ";">>, <<"U+">>>>,
     <<<<"g", "f", "r", ";">>, <<"U+00E9">>>>,
     <<<<"g", "g", ";">>, <<"U+">>>>, <<<<"g", "g", "g", ";">>, <<"U+">>>>,
     <<<<"g", "i", "m", "e", "l", ";">>, <<"U+00E9">>>>,
     <<<<"g", "j", "c", "y", ";">>, <<"U+00E9">>>>,
     <<<<"g", "l", ";">>, <<"U+">>>>, <<<<"g", "l", "E", ";">>, <<"U+">>>>,
     <<<<"g", "l", "a", ";">>, <<"U+">>>>,
     <<<<"g", "l", "j", ";">>, <<"U+">>>>,
     <<<<"g", "n", "E", ";">>, <<"U+">>>>,
     <<<<"g", "n", "a", "p", ";">>, <<"U+">>>>,
     <<<<"g", "n", "a", "p", "p", "r", "o", "x", ";">>, <<"U+">>>>,
     <<<<"g", "n", "e", ";">>, <<"U+">>>>,
     <<<<"g", "n", "e", "q", ";">>, <<"U+">>>>,
     <<<<"g", "n", "e", "q", "q", ";">>, <<"U+">>>>,
     <<<<"g", "n", "s", "i", "m", ";">>, <<"U+">>>>,
     <<<<"g", "o", "p", "f", ";">>, <<"U+00E9">>>>,
     <<<<"g", "r", "a", "v", "e", ";">>, <<"\\x60">>>>,
     <<<<"g", "s", "c", "r", ";">>, <<"U+00E9">>>>,
     <<<<"g", "s", "i", "m", ";">>, <<"U+">>>>,
     <<<<"g", "s", "i", "m", "e", ";">>, <<"U+">>>>,
     <<<<"g", "s", "i", "m", "l", ";">>, <<"U+">>>>,
     <<<<"g", "t">>, <<">">>>>, <<<<"g", "t", ";">>, <<">">>>>,
     <<<<"g", "t", "c", "c", ";">>, <<"U+">>>>,
     <<<<"g", "t", "c", "i", "r", ";">>, <<"U+">>>>,
     <<<<"g", "t", "d", "o", "t", ";">>, <<"U+">>>>,
     <<<<"g", "t", "l", "P", "a", "r", ";">>, <<"U+">>>>,
     <<<<"g", "t", "q", "u", "e", "s", "t", ";">>, <<"U+">>>>,
     <<<<"g", "t", "r", "a", "p", "p", "r", "o", "x", ";">>, <<"U+">>>>,
     <<<<"g", "t", "r", "a", "r", "r", ";">>, <<"U+">>>>,
     <<<<"g", "t", "r", "d", "o", "t", ";">>, <<"U+">>>>,
     <<<<"g", "t", "r", "e", "q", "l", "e", "s", "s", ";">>, <<"U+">>>>,
     <<<<"g", "t", "r", "e", "q", "q", "l", "e", "s", "s", ";">>, <<"U+">>>>,
     <<<<"g", "t", "r", "l", "e", "s", "s", ";">>, <<"U+">>>>,
     <<<<"g", "t", "r", "s", "i", "m", ";">>, <<"U+">>>>,
     <<<<"g", "v", "e", "r", "t", "n", "e", "q", "q", ";">>, <<"U+", "U+">>>>,
     <<<<"g", "v", "n", "E", ";">>, <<"U+", "U+">>>>,
     <<<<"h", "A", "r", "r", ";">>, <<"U+">>>>,
     <<<<"h", "a", "i", "r", "s", "p", ";">>, <<"U+">>>>,
     <<<<"h", "a", "l", "f", ";">>, <<"U+00E9">>>>,
     <<<<"h", "a", "m", "i", "l", "t", ";">>, <<"U+03D2">>>>,
     <<<<"h", "a", "r", "d", "c", "y", ";">>, <<"U+00E9">>>>,
     <<<<"h", "a", "r", "r", ";">>, <<"U+">>>>,
     <<<<"h", "a", "r", "r", "c", "i", "r", ";">>, <<"U+">>>>,
     <<<<"h", "a", "r", "r", "w", ";">>, <<"U+">>>>,
     <<<<"h", "b", "a", "r", ";">>, <<"U+00E9">>>>,
     <<<<"h", "c", "i", "r", "c", ";">>, <<"U+00E9">>>>,
     <<<<"h", "e", "a", "r", "t", "s", ";">>, <<"U+">>>>,
     <<<<"h", "e", "a", "r", "t", "s", "u", "i", "t", ";">>, <<"U+">>>>,
     <<<<"h", "e", "l", "l", "i", "p", ";">>, <<"U+">>>>,
     <<<<"h", "e", "r", "c", "o", "n", ";">>, <<"U+">>>>,
     <<<<"h", "f", "r", ";">>, <<"U+00E9">>>>,
     <<<<"h", "k", "s", "e", "a", "r", "o", "w", ";">>, <<"U+">>>>,
     <<<<"h", "k", "s", "w", "a", "r", "o", "w", ";">>, <<"U+">>>>,
     <<<<"h", "o", "a", "r", "r", ";">>, <<"U+">>>>,
     <<<<"h", "o", "m", "t", "h", "t", ";">>, <<"U+">>>>,
     <<<<"h", "o", "o", "k", "l", "e", "f", "t", "a", "r", "r", "o", "w", ";">>, <<"U+">>>>,
     <<<<"h", "o", "o", "k", "r", "i", "g", "h", "t", "a", "r", "r", "o", "w", ";">>, <<"U+">>>>,
     <<<<"h", "o", "p", "f", ";">>, <<"U+00E9">>>>,
     <<<<"h", "o", "r", "b", "a", "r", ";">>, <<"U+">>>>,
     <<<<"h", "s", "c", "r", ";">>, <<"U+00E9">>>>,
     <<<<"h", "s", "l", "a", "s", "h", ";">>, <<"U+00E9">>>>,
     <<<<"h", "s", "t", "r", "o", "k", ";">>, <<"U+00E9">>>>,
     <<<<"h", "y", "b", "u", "l", "l", ";">>, <<"U+">>>>,
     <<<<"h", "y", "p", "h", "e", "n", ";">>, <<"U+">>>>,
     <<<<"i", "a", "c", "u", "t", "e">>, <<"U+00E9">>>>,
     <<<<"i", "a", "c", "u", "t", "e", ";">>, <<"U+00E9">>>>,
     <<<<"i", "c", ";">>, <<"U+">>>>,
     <<<<"i", "c", "i", "r", "c">>, <<"U+00E9">>>>,
     <<<<"i", "c", "i", "r", "c", ";">>, <<"U+00E9">>>>,
     <<<<"i", "c", "y", ";">>, <<"U+00E9">>>>,
     <<<<"i", "e", "c", "y", ";">>, <<"U+00E9">>>>,
     <<<<"i", "e", "x", "c", "l">>, <<"U+">>>>,
     <<<<"i", "e", "x", "c", "l", ";">>, <<"U+">>>>,
     <<<<"i", "f", "f", ";">>, <<"U+">>>>,
     <<<<"i", "f", "r", ";">>, <<"U+00E9">>>>,
     <<<<"i", "g", "r", "a", "v", "e">>, <<"U+00E9">>>>,
     <<<<"i", "g", "r", "a", "v", "e", ";">>, <<"U+00E9">>>>,
     <<<<"i", "i", ";">>, <<"U+00E9">>>>,
     <<<<"i", "i", "i", "i", "n", "t", ";">>, <<"U+">>>>,
     <<<<"i", "i", "i", "n", "t", ";">>, <<"U+">>>>,
     <<<<"i", "i", "n", "f", "i", "n", ";">>, <<"U+">>>>,
     <<<<"i", "i", "o", "t", "a", ";">>, <<"U+">>>>,
     <<<<"i", "j", "l", "i", "g", ";">>, <<"U+00E9">>>>,
     <<<<"i", "m", "a", "c", "r", ";">>, <<"U+00E9">>>>,
     <<<<"i", "m", "a", "g", "e", ";">>, <<"U+03D2">>>>,
     <<<<"i", "m", "a", "g", "l", "i", "n", "e", ";">>, <<"U+03D2">>>>,
     <<<<"i", "m", "a", "g", "p", "a", "r", "t", ";">>, <<"U+03D2">>>>,
     <<<<"i", "m", "a", "t", "h", ";">>, <<"U+00E9">>>>,
     <<<<"i", "m", "o", "f", ";">>, <<"U+">>>>,
     <<<<"i", "m", "p", "e", "d", ";">>, <<"U+00C9">>>>,
     <<<<"i", "n", ";">>, <<"U+">>>>,
     <<<<"i", "n", "c", "a", "r", "e", ";">>, <<"U+">>>>,
     <<<<"i", "n", "f", "i", "n", ";">>, <<"U+">>>>,
     <<<<"i", "n", "f", "i", "n", "t", "i", "e", ";">>, <<"U+">>>>,
     <<<<"i", "n", "o", "d", "o", "t", ";">>, <<"U+00E9">>>>,
     <<<<"i", "n", "t", ";">>, <<"U+">>>>,
     <<<<"i", "n", "t", "c", "a", "l", ";">>, <<"U+">>>>,
     <<<<"i", "n", "t", "e", "g", "e", "r", "s", ";">>, <<"U+03D2">>>>,
     <<<<"i", "n", "t", "e", "r", "c", "a", "l", ";">>, <<"U+">>>>,
     <<<<"i", "n", "t", "l", "a", "r", "h", "k", ";">>, <<"U+">>>>,
     <<<<"i", "n", "t", "p", "r", "o", "d", ";">>, <<"U+">>>>,
     <<<<"i", "o", "c", "y", ";">>, <<"U+00E9">>>>,
     <<<<"i", "o", "g", "o", "n", ";">>, <<"U+00E9">>>>,
     <<<<"i", "o", "p", "f", ";">>, <<"U+00E9">>>>,
     <<<<"i", "o", "t", "a", ";">>, <<"U+00E9">>>>,
     <<<<"i", "p", "r", "o", "d", ";">>, <<"U+">>>>,
     <<<<"i", "q", "u", "e", "s", "t">>, <<"U+">>>>,
     <<<<"i", "q", "u", "e", "s", "t", ";">>, <<"U+">>>>,
     <<<<"i", "s", "c", "r", ";">>, <<"U+00E9">>>>,
     <<<<"i", "s", "i", "n", ";">>, <<"U+">>>>,
     <<<<"i", "s", "i", "n", "E", ";">>, <<"U+">>>>,
     <<<<"i", "s", "i", "n", "d", "o", "t", ";">>, <<"U+">>>>,
     <<<<"i", "s", "i", "n", "s", ";">>, <<"U+">>>>,
     <<<<"i", "s", "i", "n", "s", "v", ";">>, <<"U+">>>>,
     <<<<"i", "s", "i", "n", "v", ";">>, <<"U+">>>>,
     <<<<"i", "t", ";">>, <<"U+">>>>,
     <<<<"i", "t", "i", "l", "d", "e", ";">>, <<"U+00E9">>>>,
     <<<<"i", "u", "k", "c", "y", ";">>, <<"U+00E9">>>>,
     <<<<"i", "u", "m", "l">>, <<"U+00E9">>>>,
     <<<<"i", "u", "m", "l", ";">>, <<"U+00E9">>>>,
     <<<<"j", "c", "i", "r", "c", ";">>, <<"U+00E9">>>>,
     <<<<"j", "c", "y", ";">>, <<"U+00E9">>>>,
     <<<<"j", "f", "r", ";">>, <<"U+00E9">>>>,
     <<<<"j", "m", "a", "t", "h", ";">>, <<"U+00E9">>>>,
     <<<<"j", "o", "p", "f", ";">>, <<"U+00E9">>>>,
     <<<<"j", "s", "c", "r", ";">>, <<"U+00E9">>>>,
     <<<<"j", "s", "e", "r", "c", "y", ";">>, <<"U+00E9">>>>,
     <<<<"j", "u", "k", "c", "y", ";">>, <<"U+00E9">>>>,
     <<<<"k", "a", "p", "p", "a", ";">>, <<"U+00E9">>>>,
     <<<<"k", "a", "p", "p", "a", "v", ";">>, <<"U+00E9">>>>,
     <<<<"k", "c", "e", "d", "i", "l", ";">>, <<"U+00E9">>>>,
     <<<<"k", "c", "y", ";">>, <<"U+00E9">>>>,
     <<<<"k", "f", "r", ";">>, <<"U+00E9">>>>,
     <<<<"k", "g", "r", "e", "e", "n", ";">>, <<"U+00E9">>>>,
     <<<<"k", "h", "c", "y", ";">>, <<"U+00E9">>>>,
     <<<<"k", "j", "c", "y", ";">>, <<"U+00E9">>>>,
     <<<<"k", "o", "p", "f", ";">>, <<"U+00E9">>>>,
     <<<<"k", "s", "c", "r", ";">>, <<"U+00E9">>>>,
     <<<<"l", "A", "a", "r", "r", ";">>, <<"U+">>>>,
     <<<<"l", "A", "r", "r", ";">>, <<"U+">>>>,
     <<<<"l", "A", "t", "a", "i", "l", ";">>, <<"U+">>>>,
     <<<<"l", "B", "a", "r", "r", ";">>, <<"U+">>>>,
     <<<<"l", "E", ";">>, <<"U+">>>>, <<<<"l", "E", "g", ";">>, <<"U+">>>>,
     <<<<"l", "H", "a", "r", ";">>, <<"U+">>>>,
     <<<<"l", "a", "c", "u", "t", "e", ";">>, <<"U+00E9">>>>,
     <<<<"l", "a", "e", "m", "p", "t", "y", "v", ";">>, <<"U+">>>>,
     <<<<"l", "a", "g", "r", "a", "n", ";">>, <<"U+03D2">>>>,
     <<<<"l", "a", "m", "b", "d", "a", ";">>, <<"U+00E9">>>>,
     <<<<"l", "a", "n", "g", ";">>, <<"U+">>>>,
     <<<<"l", "a", "n", "g", "d", ";">>, <<"U+">>>>,
     <<<<"l", "a", "n", "g", "l", "e", ";">>, <<"U+">>>>,
     <<<<"l", "a", "p", ";">>, <<"U+">>>>,
     <<<<"l", "a", "q", "u", "o">>, <<"U+">>>>,
     <<<<"l", "a", "q", "u", "o", ";">>, <<"U+">>>>,
     <<<<"l", "a", "r", "r", ";">>, <<"U+">>>>,
     <<<<"l", "a", "r", "r", "b", ";">>, <<"U+">>>>,
     <<<<"l", "a", "r", "r", "b", "f", "s", ";">>, <<"U+">>>>,
     <<<<"l", "a", "r", "r", "f", "s", ";">>, <<"U+">>>>,
     <<<<"l", "a", "r", "r", "h", "k", ";">>, <<"U+">>>>,
     <<<<"l", "a", "r", "r", "l", "p", ";">>, <<"U+">>>>,
     <<<<"l", "a", "r", "r", "p", "l", ";">>, <<"U+">>>>,
     <<<<"l", "a", "r", "r", "s", "i", "m", ";">>, <<"U+">>>>,
     <<<<"l", "a", "r", "r", "t", "l", ";">>, <<"U+">>>>,
     <<<<"l", "a", "t", ";">>, <<"U+">>>>,
     <<<<"l", "a", "t", "a", "i", "l", ";">>, <<"U+">>>>,
     <<<<"l", "a", "t", "e", ";">>, <<"U+">>>>,
     <<<<"l", "a", "t", "e", "s", ";">>, <<"U+", "U+">>>>,
     <<<<"l", "b", "a", "r", "r", ";">>, <<"U+">>>>,
     <<<<"l", "b", "b", "r", "k", ";">>, <<"U+">>>>,
     <<<<"l", "b", "r", "a", "c", "e", ";">>, <<"{">>>>,
     <<<<"l", "b", "r", "a", "c", "k", ";">>, <<"[">>>>,
     <<<<"l", "b", "r", "k", "e", ";">>, <<"U+">>>>,
     <<<<"l", "b", "r", "k", "s", "l", "d", ";">>, <<"U+">>>>,
     <<<<"l", "b", "r", "k", "s", "l", "u", ";">>, <<"U+">>>>,
     <<<<"l", "c", "a", "r", "o", "n", ";">>, <<"U+00E9">>>>,
     <<<<"l", "c", "e", "d", "i", "l", ";">>, <<"U+00E9">>>>,
     <<<<"l", "c", "e", "i", "l", ";">>, <<"U+">>>>,
     <<<<"l", "c", "u", "b", ";">>, <<"{">>>>,
     <<<<"l", "c", "y", ";">>, <<"U+00E9">>>>,
     <<<<"l", "d", "c", "a", ";">>, <<"U+">>>>,
     <<<<"l", "d", "q", "u", "o", ";">>, <<"U+">>>>,
     <<<<"l", "d", "q", "u", "o", "r", ";">>, <<"U+">>>>,
     <<<<"l", "d", "r", "d", "h", "a", "r", ";">>, <<"U+">>>>,
     <<<<"l", "d", "r", "u", "s", "h", "a", "r", ";">>, <<"U+">>>>,
     <<<<"l", "d", "s", "h", ";">>, <<"U+">>>>,
     <<<<"l", "e", ";">>, <<"U+">>>>,
     <<<<"l", "e", "f", "t", "a", "r", "r", "o", "w", ";">>, <<"U+">>>>,
     <<<<"l", "e", "f", "t", "a", "r", "r", "o", "w", "t", "a", "i", "l", ";">>, <<"U+">>>>,
     <<<<"l", "e", "f", "t", "h", "a", "r", "p", "o", "o", "n", "d", "o", "w", "n", ";">>, <<"U+">>>>,
     <<<<"l", "e", "f", "t", "h", "a", "r", "p", "o", "o", "n", "u", "p", ";">>, <<"U+">>>>,
     <<<<"l", "e", "f", "t", "l", "e", "f", "t", "a", "r", "r", "o", "w", "s", ";">>, <<"U+">>>>,
     <<<<"l", "e", "f", "t", "r", "i", "g", "h", "t", "a", "r", "r", "o", "w", ";">>, <<"U+">>>>,
     <<<<"l", "e", "f", "t", "r", "i", "g", "h", "t", "a", "r", "r", "o", "w", "s", ";">>, <<"U+">>>>,
     <<<<"l", "e", "f", "t", "r", "i", "g", "h", "t", "h", "a", "r", "p", "o", "o", "n", "s", ";">>, <<"U+">>>>,
     <<<<"l", "e", "f", "t", "r", "i", "g", "h", "t", "s", "q", "u", "i", "g", "a", "r", "r", "o", "w", ";">>, <<"U+">>>>,
     <<<<"l", "e", "f", "t", "t", "h", "r", "e", "e", "t", "i", "m", "e", "s", ";">>, <<"U+">>>>,
     <<<<"l", "e", "g", ";">>, <<"U+">>>>,
     <<<<"l", "e", "q", ";">>, <<"U+">>>>,
     <<<<"l", "e", "q", "q", ";">>, <<"U+">>>>,
     <<<<"l", "e", "q", "s", "l", "a", "n", "t", ";">>, <<"U+">>>>,
     <<<<"l", "e", "s", ";">>, <<"U+">>>>,
     <<<<"l", "e", "s", "c", "c", ";">>, <<"U+">>>>,
     <<<<"l", "e", "s", "d", "o", "t", ";">>, <<"U+">>>>,
     <<<<"l", "e", "s", "d", "o", "t", "o", ";">>, <<"U+">>>>,
     <<<<"l", "e", "s", "d", "o", "t", "o", "r", ";">>, <<"U+">>>>,
     <<<<"l", "e", "s", "g", ";">>, <<"U+", "U+">>>>,
     <<<<"l", "e", "s", "g", "e", "s", ";">>, <<"U+">>>>,
     <<<<"l", "e", "s", "s", "a", "p", "p", "r", "o", "x", ";">>, <<"U+">>>>,
     <<<<"l", "e", "s", "s", "d", "o", "t", ";">>, <<"U+">>>>,
     <<<<"l", "e", "s", "s", "e", "q", "g", "t", "r", ";">>, <<"U+">>>>,
     <<<<"l", "e", "s", "s", "e", "q", "q", "g", "t", "r", ";">>, <<"U+">>>>,
     <<<<"l", "e", "s", "s", "g", "t", "r", ";">>, <<"U+">>>>,
     <<<<"l", "e", "s", "s", "s", "i", "m", ";">>, <<"U+">>>>,
     <<<<"l", "f", "i", "s", "h", "t", ";">>, <<"U+">>>>,
     <<<<"l", "f", "l", "o", "o", "r", ";">>, <<"U+">>>>,
     <<<<"l", "f", "r", ";">>, <<"U+00E9">>>>,
     <<<<"l", "g", ";">>, <<"U+">>>>, <<<<"l", "g", "E", ";">>, <<"U+">>>>,
     <<<<"l", "h", "a", "r", "d", ";">>, <<"U+">>>>,
     <<<<"l", "h", "a", "r", "u", ";">>, <<"U+">>>>,
     <<<<"l", "h", "a", "r", "u", "l", ";">>, <<"U+">>>>,
     <<<<"l", "h", "b", "l", "k", ";">>, <<"U+">>>>,
     <<<<"l", "j", "c", "y", ";">>, <<"U+00E9">>>>,
     <<<<"l", "l", ";">>, <<"U+">>>>,
     <<<<"l", "l", "a", "r", "r", ";">>, <<"U+">>>>,
     <<<<"l", "l", "c", "o", "r", "n", "e", "r", ";">>, <<"U+">>>>,
     <<<<"l", "l", "h", "a", "r", "d", ";">>, <<"U+">>>>,
     <<<<"l", "l", "t", "r", "i", ";">>, <<"U+">>>>,
     <<<<"l", "m", "i", "d", "o", "t", ";">>, <<"U+00E9">>>>,
     <<<<"l", "m", "o", "u", "s", "t", ";">>, <<"U+">>>>,
     <<<<"l", "m", "o", "u", "s", "t", "a", "c", "h", "e", ";">>, <<"U+">>>>,
     <<<<"l", "n", "E", ";">>, <<"U+">>>>,
     <<<<"l", "n", "a", "p", ";">>, <<"U+">>>>,
     <<<<"l", "n", "a", "p", "p", "r", "o", "x", ";">>, <<"U+">>>>,
     <<<<"l", "n", "e", ";">>, <<"U+">>>>,
     <<<<"l", "n", "e", "q", ";">>, <<"U+">>>>,
     <<<<"l", "n", "e", "q", "q", ";">>, <<"U+">>>>,
     <<<<"l", "n", "s", "i", "m", ";">>, <<"U+">>>>,
     <<<<"l", "o", "a", "n", "g", ";">>, <<"U+">>>>,
     <<<<"l", "o", "a", "r", "r", ";">>, <<"U+">>>>,
     <<<<"l", "o", "b", "r", "k", ";">>, <<"U+">>>>,
     <<<<"l", "o", "n", "g", "l", "e", "f", "t", "a", "r", "r", "o", "w", ";">>, <<"U+">>>>,
     <<<<"l", "o", "n", "g", "l", "e", "f", "t", "r", "i", "g", "h", "t", "a", "r", "r", "o", "w", ";">>, <<"U+">>>>,
     <<<<"l", "o", "n", "g", "m", "a", "p", "s", "t", "o", ";">>, <<"U+">>>>,
     <<<<"l", "o", "n", "g", "r", "i", "g", "h", "t", "a", "r", "r", "o", "w", ";">>, <<"U+">>>>,
     <<<<"l", "o", "o", "p", "a", "r", "r", "o", "w", "l", "e", "f", "t", ";">>, <<"U+">>>>,
     <<<<"l", "o", "o", "p", "a", "r", "r", "o", "w", "r", "i", "g", "h", "t", ";">>, <<"U+">>>>,
     <<<<"l", "o", "p", "a", "r", ";">>, <<"U+">>>>,
     <<<<"l", "o", "p", "f", ";">>, <<"U+00E9">>>>,
     <<<<"l", "o", "p", "l", "u", "s", ";">>, <<"U+">>>>,
     <<<<"l", "o", "t", "i", "m", "e", "s", ";">>, <<"U+">>>>,
     <<<<"l", "o", "w", "a", "s", "t", ";">>, <<"U+">>>>,
     <<<<"l", "o", "w", "b", "a", "r", ";">>, <<"_">>>>,
     <<<<"l", "o", "z", ";">>, <<"U+">>>>,
     <<<<"l", "o", "z", "e", "n", "g", "e", ";">>, <<"U+">>>>,
     <<<<"l", "o", "z", "f", ";">>, <<"U+">>>>,
     <<<<"l", "p", "a", "r", ";">>, <<"(">>>>,
     <<<<"l", "p", "a", "r", "l", "t", ";">>, <<"U+">>>>,
     <<<<"l", "r", "a", "r", "r", ";">>, <<"U+">>>>,
     <<<<"l", "r", "c", "o", "r", "n", "e", "r", ";">>, <<"U+">>>>,
     <<<<"l", "r", "h", "a", "r", ";">>, <<"U+">>>>,
     <<<<"l", "r", "h", "a", "r", "d", ";">>, <<"U+">>>>,
     <<<<"l", "r", "m", ";">>, <<"U+">>>>,
     <<<<"l", "r", "t", "r", "i", ";">>, <<"U+">>>>,
     <<<<"l", "s", "a", "q", "u", "o", ";">>, <<"U+">>>>,
     <<<<"l", "s", "c", "r", ";">>, <<"U+00E9">>>>,
     <<<<"l", "s", "h", ";">>, <<"U+">>>>,
     <<<<"l", "s", "i", "m", ";">>, <<"U+">>>>,
     <<<<"l", "s", "i", "m", "e", ";">>, <<"U+">>>>,
     <<<<"l", "s", "i", "m", "g", ";">>, <<"U+">>>>,
     <<<<"l", "s", "q", "b", ";">>, <<"[">>>>,
     <<<<"l", "s", "q", "u", "o", ";">>, <<"U+">>>>,
     <<<<"l", "s", "q", "u", "o", "r", ";">>, <<"U+">>>>,
     <<<<"l", "s", "t", "r", "o", "k", ";">>, <<"U+00E9">>>>,
     <<<<"l", "t">>, <<"<">>>>, <<<<"l", "t", ";">>, <<"<">>>>,
     <<<<"l", "t", "c", "c", ";">>, <<"U+">>>>,
     <<<<"l", "t", "c", "i", "r", ";">>, <<"U+">>>>,
     <<<<"l", "t", "d", "o", "t", ";">>, <<"U+">>>>,
     <<<<"l", "t", "h", "r", "e", "e", ";">>, <<"U+">>>>,
     <<<<"l", "t", "i", "m", "e", "s", ";">>, <<"U+">>>>,
     <<<<"l", "t", "l", "a", "r", "r", ";">>, <<"U+">>>>,
     <<<<"l", "t", "q", "u", "e", "s", "t", ";">>, <<"U+">>>>,
     <<<<"l", "t", "r", "P", "a", "r", ";">>, <<"U+">>>>,
     <<<<"l", "t", "r", "i", ";">>, <<"U+">>>>,
     <<<<"l", "t", "r", "i", "e", ";">>, <<"U+">>>>,
     <<<<"l", "t", "r", "i", "f", ";">>, <<"U+">>>>,
     <<<<"l", "u", "r", "d", "s", "h", "a", "r", ";">>, <<"U+">>>>,
     <<<<"l", "u", "r", "u", "h", "a", "r", ";">>, <<"U+">>>>,
     <<<<"l", "v", "e", "r", "t", "n", "e", "q", "q", ";">>, <<"U+", "U+">>>>,
     <<<<"l", "v", "n", "E", ";">>, <<"U+", "U+">>>>,
     <<<<"m", "D", "D", "o", "t", ";">>, <<"U+">>>>,
     <<<<"m", "a", "c", "r">>, <<"U+">>>>,
     <<<<"m", "a", "c", "r", ";">>, <<"U+">>>>,
     <<<<"m", "a", "l", "e", ";">>, <<"U+">>>>,
     <<<<"m", "a", "l", "t", ";">>, <<"U+">>>>,
     <<<<"m", "a", "l", "t", "e", "s", "e", ";">>, <<"U+">>>>,
     <<<<"m", "a", "p", ";">>, <<"U+">>>>,
     <<<<"m", "a", "p", "s", "t", "o", ";">>, <<"U+">>>>,
     <<<<"m", "a", "p", "s", "t", "o", "d", "o", "w", "n", ";">>, <<"U+">>>>,
     <<<<"m", "a", "p", "s", "t", "o", "l", "e", "f", "t", ";">>, <<"U+">>>>,
     <<<<"m", "a", "p", "s", "t", "o", "u", "p", ";">>, <<"U+">>>>,
     <<<<"m", "a", "r", "k", "e", "r", ";">>, <<"U+">>>>,
     <<<<"m", "c", "o", "m", "m", "a", ";">>, <<"U+">>>>,
     <<<<"m", "c", "y", ";">>, <<"U+00E9">>>>,
     <<<<"m", "d", "a", "s", "h", ";">>, <<"U+">>>>,
     <<<<"m", "e", "a", "s", "u", "r", "e", "d", "a", "n", "g", "l", "e", ";">>, <<"U+">>>>,
     <<<<"m", "f", "r", ";">>, <<"U+00E9">>>>,
     <<<<"m", "h", "o", ";">>, <<"U+">>>>,
     <<<<"m", "i", "c", "r", "o">>, <<"U+00E9">>>>,
     <<<<"m", "i", "c", "r", "o", ";">>, <<"U+00E9">>>>,
     <<<<"m", "i", "d", ";">>, <<"U+">>>>,
     <<<<"m", "i", "d", "a", "s", "t", ";">>, <<"*">>>>,
     <<<<"m", "i", "d", "c", "i", "r", ";">>, <<"U+">>>>,
     <<<<"m", "i", "d", "d", "o", "t">>, <<"U+">>>>,
     <<<<"m", "i", "d", "d", "o", "t", ";">>, <<"U+">>>>,
     <<<<"m", "i", "n", "u", "s", ";">>, <<"U+">>>>,
     <<<<"m", "i", "n", "u", "s", "b", ";">>, <<"U+">>>>,
     <<<<"m", "i", "n", "u", "s", "d", ";">>, <<"U+">>>>,
     <<<<"m", "i", "n", "u", "s", "d", "u", ";">>, <<"U+">>>>,
     <<<<"m", "l", "c", "p", ";">>, <<"U+">>>>,
     <<<<"m", "l", "d", "r", ";">>, <<"U+">>>>,
     <<<<"m", "n", "p", "l", "u", "s", ";">>, <<"U+">>>>,
     <<<<"m", "o", "d", "e", "l", "s", ";">>, <<"U+">>>>,
     <<<<"m", "o", "p", "f", ";">>, <<"U+00E9">>>>,
     <<<<"m", "p", ";">>, <<"U+">>>>,
     <<<<"m", "s", "c", "r", ";">>, <<"U+00E9">>>>,
     <<<<"m", "s", "t", "p", "o", "s", ";">>, <<"U+">>>>,
     <<<<"m", "u", ";">>, <<"U+00E9">>>>,
     <<<<"m", "u", "l", "t", "i", "m", "a", "p", ";">>, <<"U+">>>>,
     <<<<"m", "u", "m", "a", "p", ";">>, <<"U+">>>>,
     <<<<"n", "G", "g", ";">>, <<"U+", "U+">>>>,
     <<<<"n", "G", "t", ";">>, <<"U+", "U+">>>>,
     <<<<"n", "G", "t", "v", ";">>, <<"U+", "U+">>>>,
     <<<<"n", "L", "e", "f", "t", "a", "r", "r", "o", "w", ";">>, <<"U+">>>>,
     <<<<"n", "L", "e", "f", "t", "r", "i", "g", "h", "t", "a", "r", "r", "o", "w", ";">>, <<"U+">>>>,
     <<<<"n", "L", "l", ";">>, <<"U+", "U+">>>>,
     <<<<"n", "L", "t", ";">>, <<"U+", "U+">>>>,
     <<<<"n", "L", "t", "v", ";">>, <<"U+", "U+">>>>,
     <<<<"n", "R", "i", "g", "h", "t", "a", "r", "r", "o", "w", ";">>, <<"U+">>>>,
     <<<<"n", "V", "D", "a", "s", "h", ";">>, <<"U+">>>>,
     <<<<"n", "V", "d", "a", "s", "h", ";">>, <<"U+">>>>,
     <<<<"n", "a", "b", "l", "a", ";">>, <<"U+">>>>,
     <<<<"n", "a", "c", "u", "t", "e", ";">>, <<"U+00E9">>>>,
     <<<<"n", "a", "n", "g", ";">>, <<"U+", "U+">>>>,
     <<<<"n", "a", "p", ";">>, <<"U+">>>>,
     <<<<"n", "a", "p", "E", ";">>, <<"U+", "U+">>>>,
     <<<<"n", "a", "p", "i", "d", ";">>, <<"U+", "U+">>>>,
     <<<<"n", "a", "p", "o", "s", ";">>, <<"U+00E9">>>>,
     <<<<"n", "a", "p", "p", "r", "o", "x", ";">>, <<"U+">>>>,
     <<<<"n", "a", "t", "u", "r", ";">>, <<"U+">>>>,
     <<<<"n", "a", "t", "u", "r", "a", "l", ";">>, <<"U+">>>>,
     <<<<"n", "a", "t", "u", "r", "a", "l", "s", ";">>, <<"U+03D2">>>>,
     <<<<"n", "b", "s", "p">>, <<"U+">>>>,
     <<<<"n", "b", "s", "p", ";">>, <<"U+">>>>,
     <<<<"n", "b", "u", "m", "p", ";">>, <<"U+", "U+">>>>,
     <<<<"n", "b", "u", "m", "p", "e", ";">>, <<"U+", "U+">>>>,
     <<<<"n", "c", "a", "p", ";">>, <<"U+">>>>,
     <<<<"n", "c", "a", "r", "o", "n", ";">>, <<"U+00E9">>>>,
     <<<<"n", "c", "e", "d", "i", "l", ";">>, <<"U+00E9">>>>,
     <<<<"n", "c", "o", "n", "g", ";">>, <<"U+">>>>,
     <<<<"n", "c", "o", "n", "g", "d", "o", "t", ";">>, <<"U+", "U+">>>>,
     <<<<"n", "c", "u", "p", ";">>, <<"U+">>>>,
     <<<<"n", "c", "y", ";">>, <<"U+00E9">>>>,
     <<<<"n", "d", "a", "s", "h", ";">>, <<"U+">>>>,
     <<<<"n", "e", ";">>, <<"U+">>>>,
     <<<<"n", "e", "A", "r", "r", ";">>, <<"U+">>>>,
     <<<<"n", "e", "a", "r", "h", "k", ";">>, <<"U+">>>>,
     <<<<"n", "e", "a", "r", "r", ";">>, <<"U+">>>>,
     <<<<"n", "e", "a", "r", "r", "o", "w", ";">>, <<"U+">>>>,
     <<<<"n", "e", "d", "o", "t", ";">>, <<"U+", "U+">>>>,
     <<<<"n", "e", "q", "u", "i", "v", ";">>, <<"U+">>>>,
     <<<<"n", "e", "s", "e", "a", "r", ";">>, <<"U+">>>>,
     <<<<"n", "e", "s", "i", "m", ";">>, <<"U+", "U+">>>>,
     <<<<"n", "e", "x", "i", "s", "t", ";">>, <<"U+">>>>,
     <<<<"n", "e", "x", "i", "s", "t", "s", ";">>, <<"U+">>>>,
     <<<<"n", "f", "r", ";">>, <<"U+00E9">>>>,
     <<<<"n", "g", "E", ";">>, <<"U+", "U+">>>>,
     <<<<"n", "g", "e", ";">>, <<"U+">>>>,
     <<<<"n", "g", "e", "q", ";">>, <<"U+">>>>,
     <<<<"n", "g", "e", "q", "q", ";">>, <<"U+", "U+">>>>,
     <<<<"n", "g", "e", "q", "s", "l", "a", "n", "t", ";">>, <<"U+", "U+">>>>,
     <<<<"n", "g", "e", "s", ";">>, <<"U+", "U+">>>>,
     <<<<"n", "g", "s", "i", "m", ";">>, <<"U+">>>>,
     <<<<"n", "g", "t", ";">>, <<"U+">>>>,
     <<<<"n", "g", "t", "r", ";">>, <<"U+">>>>,
     <<<<"n", "h", "A", "r", "r", ";">>, <<"U+">>>>,
     <<<<"n", "h", "a", "r", "r", ";">>, <<"U+">>>>,
     <<<<"n", "h", "p", "a", "r", ";">>, <<"U+">>>>,
     <<<<"n", "i", ";">>, <<"U+">>>>, <<<<"n", "i", "s", ";">>, <<"U+">>>>,
     <<<<"n", "i", "s", "d", ";">>, <<"U+">>>>,
     <<<<"n", "i", "v", ";">>, <<"U+">>>>,
     <<<<"n", "j", "c", "y", ";">>, <<"U+00E9">>>>,
     <<<<"n", "l", "A", "r", "r", ";">>, <<"U+">>>>,
     <<<<"n", "l", "E", ";">>, <<"U+", "U+">>>>,
     <<<<"n", "l", "a", "r", "r", ";">>, <<"U+">>>>,
     <<<<"n", "l", "d", "r", ";">>, <<"U+">>>>,
     <<<<"n", "l", "e", ";">>, <<"U+">>>>,
     <<<<"n", "l", "e", "f", "t", "a", "r", "r", "o", "w", ";">>, <<"U+">>>>,
     <<<<"n", "l", "e", "f", "t", "r", "i", "g", "h", "t", "a", "r", "r", "o", "w", ";">>, <<"U+">>>>,
     <<<<"n", "l", "e", "q", ";">>, <<"U+">>>>,
     <<<<"n", "l", "e", "q", "q", ";">>, <<"U+", "U+">>>>,
     <<<<"n", "l", "e", "q", "s", "l", "a", "n", "t", ";">>, <<"U+", "U+">>>>,
     <<<<"n", "l", "e", "s", ";">>, <<"U+", "U+">>>>,
     <<<<"n", "l", "e", "s", "s", ";">>, <<"U+">>>>,
     <<<<"n", "l", "s", "i", "m", ";">>, <<"U+">>>>,
     <<<<"n", "l", "t", ";">>, <<"U+">>>>,
     <<<<"n", "l", "t", "r", "i", ";">>, <<"U+">>>>,
     <<<<"n", "l", "t", "r", "i", "e", ";">>, <<"U+">>>>,
     <<<<"n", "m", "i", "d", ";">>, <<"U+">>>>,
     <<<<"n", "o", "p", "f", ";">>, <<"U+00E9">>>>,
     <<<<"n", "o", "t">>, <<"U+">>>>, <<<<"n", "o", "t", ";">>, <<"U+">>>>,
     <<<<"n", "o", "t", "i", "n", ";">>, <<"U+">>>>,
     <<<<"n", "o", "t", "i", "n", "E", ";">>, <<"U+", "U+">>>>,
     <<<<"n", "o", "t", "i", "n", "d", "o", "t", ";">>, <<"U+", "U+">>>>,
     <<<<"n", "o", "t", "i", "n", "v", "a", ";">>, <<"U+">>>>,
     <<<<"n", "o", "t", "i", "n", "v", "b", ";">>, <<"U+">>>>,
     <<<<"n", "o", "t", "i", "n", "v", "c", ";">>, <<"U+">>>>,
     <<<<"n", "o", "t", "n", "i", ";">>, <<"U+">>>>,
     <<<<"n", "o", "t", "n", "i", "v", "a", ";">>, <<"U+">>>>,
     <<<<"n", "o", "t", "n", "i", "v", "b", ";">>, <<"U+">>>>,
     <<<<"n", "o", "t", "n", "i", "v", "c", ";">>, <<"U+">>>>,
     <<<<"n", "p", "a", "r", ";">>, <<"U+">>>>,
     <<<<"n", "p", "a", "r", "a", "l", "l", "e", "l", ";">>, <<"U+">>>>,
     <<<<"n", "p", "a", "r", "s", "l", ";">>, <<"U+", "U+">>>>,
     <<<<"n", "p", "a", "r", "t", ";">>, <<"U+", "U+">>>>,
     <<<<"n", "p", "o", "l", "i", "n", "t", ";">>, <<"U+">>>>,
     <<<<"n", "p", "r", ";">>, <<"U+">>>>,
     <<<<"n", "p", "r", "c", "u", "e", ";">>, <<"U+">>>>,
     <<<<"n", "p", "r", "e", ";">>, <<"U+", "U+">>>>,
     <<<<"n", "p", "r", "e", "c", ";">>, <<"U+">>>>,
     <<<<"n", "p", "r", "e", "c", "e", "q", ";">>, <<"U+", "U+">>>>,
     <<<<"n", "r", "A", "r", "r", ";">>, <<"U+">>>>,
     <<<<"n", "r", "a", "r", "r", ";">>, <<"U+">>>>,
     <<<<"n", "r", "a", "r", "r", "c", ";">>, <<"U+", "U+">>>>,
     <<<<"n", "r", "a", "r", "r", "w", ";">>, <<"U+", "U+">>>>,
     <<<<"n", "r", "i", "g", "h", "t", "a", "r", "r", "o", "w", ";">>, <<"U+">>>>,
     <<<<"n", "r", "t", "r", "i", ";">>, <<"U+">>>>,
     <<<<"n", "r", "t", "r", "i", "e", ";">>, <<"U+">>>>,
     <<<<"n", "s", "c", ";">>, <<"U+">>>>,
     <<<<"n", "s", "c", "c", "u", "e", ";">>, <<"U+">>>>,
     <<<<"n", "s", "c", "e", ";">>, <<"U+", "U+">>>>,
     <<<<"n", "s", "c", "r", ";">>, <<"U+00E9">>>>,
     <<<<"n", "s", "h", "o", "r", "t", "m", "i", "d", ";">>, <<"U+">>>>,
     <<<<"n", "s", "h", "o", "r", "t", "p", "a", "r", "a", "l", "l", "e", "l", ";">>, <<"U+">>>>,
     <<<<"n", "s", "i", "m", ";">>, <<"U+">>>>,
     <<<<"n", "s", "i", "m", "e", ";">>, <<"U+">>>>,
     <<<<"n", "s", "i", "m", "e", "q", ";">>, <<"U+">>>>,
     <<<<"n", "s", "m", "i", "d", ";">>, <<"U+">>>>,
     <<<<"n", "s", "p", "a", "r", ";">>, <<"U+">>>>,
     <<<<"n", "s", "q", "s", "u", "b", "e", ";">>, <<"U+">>>>,
     <<<<"n", "s", "q", "s", "u", "p", "e", ";">>, <<"U+">>>>,
     <<<<"n", "s", "u", "b", ";">>, <<"U+">>>>,
     <<<<"n", "s", "u", "b", "E", ";">>, <<"U+", "U+">>>>,
     <<<<"n", "s", "u", "b", "e", ";">>, <<"U+">>>>,
     <<<<"n", "s", "u", "b", "s", "e", "t", ";">>, <<"U+", "U+">>>>,
     <<<<"n", "s", "u", "b", "s", "e", "t", "e", "q", ";">>, <<"U+">>>>,
     <<<<"n", "s", "u", "b", "s", "e", "t", "e", "q", "q", ";">>, <<"U+", "U+">>>>,
     <<<<"n", "s", "u", "c", "c", ";">>, <<"U+">>>>,
     <<<<"n", "s", "u", "c", "c", "e", "q", ";">>, <<"U+", "U+">>>>,
     <<<<"n", "s", "u", "p", ";">>, <<"U+">>>>,
     <<<<"n", "s", "u", "p", "E", ";">>, <<"U+", "U+">>>>,
     <<<<"n", "s", "u", "p", "e", ";">>, <<"U+">>>>,
     <<<<"n", "s", "u", "p", "s", "e", "t", ";">>, <<"U+", "U+">>>>,
     <<<<"n", "s", "u", "p", "s", "e", "t", "e", "q", ";">>, <<"U+">>>>,
     <<<<"n", "s", "u", "p", "s", "e", "t", "e", "q", "q", ";">>, <<"U+", "U+">>>>,
     <<<<"n", "t", "g", "l", ";">>, <<"U+">>>>,
     <<<<"n", "t", "i", "l", "d", "e">>, <<"U+00E9">>>>,
     <<<<"n", "t", "i", "l", "d", "e", ";">>, <<"U+00E9">>>>,
     <<<<"n", "t", "l", "g", ";">>, <<"U+">>>>,
     <<<<"n", "t", "r", "i", "a", "n", "g", "l", "e", "l", "e", "f", "t", ";">>, <<"U+">>>>,
     <<<<"n", "t", "r", "i", "a", "n", "g", "l", "e", "l", "e", "f", "t", "e", "q", ";">>, <<"U+">>>>,
     <<<<"n", "t", "r", "i", "a", "n", "g", "l", "e", "r", "i", "g", "h", "t", ";">>, <<"U+">>>>,
     <<<<"n", "t", "r", "i", "a", "n", "g", "l", "e", "r", "i", "g", "h", "t", "e", "q", ";">>, <<"U+">>>>,
     <<<<"n", "u", ";">>, <<"U+00E9">>>>,
     <<<<"n", "u", "m", ";">>, <<"#">>>>,
     <<<<"n", "u", "m", "e", "r", "o", ";">>, <<"U+">>>>,
     <<<<"n", "u", "m", "s", "p", ";">>, <<"U+">>>>,
     <<<<"n", "v", "D", "a", "s", "h", ";">>, <<"U+">>>>,
     <<<<"n", "v", "H", "a", "r", "r", ";">>, <<"U+">>>>,
     <<<<"n", "v", "a", "p", ";">>, <<"U+", "U+">>>>,
     <<<<"n", "v", "d", "a", "s", "h", ";">>, <<"U+">>>>,
     <<<<"n", "v", "g", "e", ";">>, <<"U+", "U+">>>>,
     <<<<"n", "v", "g", "t", ";">>, <<">", "U+">>>>,
     <<<<"n", "v", "i", "n", "f", "i", "n", ";">>, <<"U+">>>>,
     <<<<"n", "v", "l", "A", "r", "r", ";">>, <<"U+">>>>,
     <<<<"n", "v", "l", "e", ";">>, <<"U+", "U+">>>>,
     <<<<"n", "v", "l", "t", ";">>, <<"<", "U+">>>>,
     <<<<"n", "v", "l", "t", "r", "i", "e", ";">>, <<"U+", "U+">>>>,
     <<<<"n", "v", "r", "A", "r", "r", ";">>, <<"U+">>>>,
     <<<<"n", "v", "r", "t", "r", "i", "e", ";">>, <<"U+", "U+">>>>,
     <<<<"n", "v", "s", "i", "m", ";">>, <<"U+", "U+">>>>,
     <<<<"n", "w", "A", "r", "r", ";">>, <<"U+">>>>,
     <<<<"n", "w", "a", "r", "h", "k", ";">>, <<"U+">>>>,
     <<<<"n", "w", "a", "r", "r", ";">>, <<"U+">>>>,
     <<<<"n", "w", "a", "r", "r", "o", "w", ";">>, <<"U+">>>>,
     <<<<"n", "w", "n", "e", "a", "r", ";">>, <<"U+">>>>,
     <<<<"o", "S", ";">>, <<"U+24B6">>>>,
     <<<<"o", "a", "c", "u", "t", "e">>, <<"U+00E9">>>>,
     <<<<"o", "a", "c", "u", "t", "e", ";">>, <<"U+00E9">>>>,
     <<<<"o", "a", "s", "t", ";">>, <<"U+">>>>,
     <<<<"o", "c", "i", "r", ";">>, <<"U+">>>>,
     <<<<"o", "c", "i", "r", "c">>, <<"U+00E9">>>>,
     <<<<"o", "c", "i", "r", "c", ";">>, <<"U+00E9">>>>,
     <<<<"o", "c", "y", ";">>, <<"U+00E9">>>>,
     <<<<"o", "d", "a", "s", "h", ";">>, <<"U+">>>>,
     <<<<"o", "d", "b", "l", "a", "c", ";">>, <<"U+00E9">>>>,
     <<<<"o", "d", "i", "v", ";">>, <<"U+">>>>,
     <<<<"o", "d", "o", "t", ";">>, <<"U+">>>>,
     <<<<"o", "d", "s", "o", "l", "d", ";">>, <<"U+">>>>,
     <<<<"o", "e", "l", "i", "g", ";">>, <<"U+00E9">>>>,
     <<<<"o", "f", "c", "i", "r", ";">>, <<"U+">>>>,
     <<<<"o", "f", "r", ";">>, <<"U+00E9">>>>,
     <<<<"o", "g", "o", "n", ";">>, <<"U+">>>>,
     <<<<"o", "g", "r", "a", "v", "e">>, <<"U+00E9">>>>,
     <<<<"o", "g", "r", "a", "v", "e", ";">>, <<"U+00E9">>>>,
     <<<<"o", "g", "t", ";">>, <<"U+">>>>,
     <<<<"o", "h", "b", "a", "r", ";">>, <<"U+">>>>,
     <<<<"o", "h", "m", ";">>, <<"U+00C9">>>>,
     <<<<"o", "i", "n", "t", ";">>, <<"U+">>>>,
     <<<<"o", "l", "a", "r", "r", ";">>, <<"U+">>>>,
     <<<<"o", "l", "c", "i", "r", ";">>, <<"U+">>>>,
     <<<<"o", "l", "c", "r", "o", "s", "s", ";">>, <<"U+">>>>,
     <<<<"o", "l", "i", "n", "e", ";">>, <<"U+">>>>,
     <<<<"o", "l", "t", ";">>, <<"U+">>>>,
     <<<<"o", "m", "a", "c", "r", ";">>, <<"U+00E9">>>>,
     <<<<"o", "m", "e", "g", "a", ";">>, <<"U+00E9">>>>,
     <<<<"o", "m", "i", "c", "r", "o", "n", ";">>, <<"U+00E9">>>>,
     <<<<"o", "m", "i", "d", ";">>, <<"U+">>>>,
     <<<<"o", "m", "i", "n", "u", "s", ";">>, <<"U+">>>>,
     <<<<"o", "o", "p", "f", ";">>, <<"U+00E9">>>>,
     <<<<"o", "p", "a", "r", ";">>, <<"U+">>>>,
     <<<<"o", "p", "e", "r", "p", ";">>, <<"U+">>>>,
     <<<<"o", "p", "l", "u", "s", ";">>, <<"U+">>>>,
     <<<<"o", "r", ";">>, <<"U+">>>>,
     <<<<"o", "r", "a", "r", "r", ";">>, <<"U+">>>>,
     <<<<"o", "r", "d", ";">>, <<"U+">>>>,
     <<<<"o", "r", "d", "e", "r", ";">>, <<"U+00E9">>>>,
     <<<<"o", "r", "d", "e", "r", "o", "f", ";">>, <<"U+00E9">>>>,
     <<<<"o", "r", "d", "f">>, <<"U+00E9">>>>,
     <<<<"o", "r", "d", "f", ";">>, <<"U+00E9">>>>,
     <<<<"o", "r", "d", "m">>, <<"U+00E9">>>>,
     <<<<"o", "r", "d", "m", ";">>, <<"U+00E9">>>>,
     <<<<"o", "r", "i", "g", "o", "f", ";">>, <<"U+">>>>,
     <<<<"o", "r", "o", "r", ";">>, <<"U+">>>>,
     <<<<"o", "r", "s", "l", "o", "p", "e", ";">>, <<"U+">>>>,
     <<<<"o", "r", "v", ";">>, <<"U+">>>>,
     <<<<"o", "s", "c", "r", ";">>, <<"U+00E9">>>>,
     <<<<"o", "s", "l", "a", "s", "h">>, <<"U+00E9">>>>,
     <<<<"o", "s", "l", "a", "s", "h", ";">>, <<"U+00E9">>>>,
     <<<<"o", "s", "o", "l", ";">>, <<"U+">>>>,
     <<<<"o", "t", "i", "l", "d", "e">>, <<"U+00E9">>>>,
     <<<<"o", "t", "i", "l", "d", "e", ";">>, <<"U+00E9">>>>,
     <<<<"o", "t", "i", "m", "e", "s", ";">>, <<"U+">>>>,
     <<<<"o", "t", "i", "m", "e", "s", "a", "s", ";">>, <<"U+">>>>,
     <<<<"o", "u", "m", "l">>, <<"U+00E9">>>>,
     <<<<"o", "u", "m", "l", ";">>, <<"U+00E9">>>>,
     <<<<"o", "v", "b", "a", "r", ";">>, <<"U+">>>>,
     <<<<"p", "a", "r", ";">>, <<"U+">>>>,
     <<<<"p", "a", "r", "a">>, <<"U+">>>>,
     <<<<"p", "a", "r", "a", ";">>, <<"U+">>>>,
     <<<<"p", "a", "r", "a", "l", "l", "e", "l", ";">>, <<"U+">>>>,
     <<<<"p", "a", "r", "s", "i", "m", ";">>, <<"U+">>>>,
     <<<<"p", "a", "r", "s", "l", ";">>, <<"U+">>>>,
     <<<<"p", "a", "r", "t", ";">>, <<"U+">>>>,
     <<<<"p", "c", "y", ";">>, <<"U+00E9">>>>,
     <<<<"p", "e", "r", "c", "n", "t", ";">>, <<"%">>>>,
     <<<<"p", "e", "r", "i", "o", "d", ";">>, <<".">>>>,
     <<<<"p", "e", "r", "m", "i", "l", ";">>, <<"U+">>>>,
     <<<<"p", "e", "r", "p", ";">>, <<"U+">>>>,
     <<<<"p", "e", "r", "t", "e", "n", "k", ";">>, <<"U+">>>>,
     <<<<"p", "f", "r", ";">>, <<"U+00E9">>>>,
     <<<<"p", "h", "i", ";">>, <<"U+00E9">>>>,
     <<<<"p", "h", "i", "v", ";">>, <<"U+00E9">>>>,
     <<<<"p", "h", "m", "m", "a", "t", ";">>, <<"U+03D2">>>>,
     <<<<"p", "h", "o", "n", "e", ";">>, <<"U+">>>>,
     <<<<"p", "i", ";">>, <<"U+00E9">>>>,
     <<<<"p", "i", "t", "c", "h", "f", "o", "r", "k", ";">>, <<"U+">>>>,
     <<<<"p", "i", "v", ";">>, <<"U+00E9">>>>,
     <<<<"p", "l", "a", "n", "c", "k", ";">>, <<"U+00E9">>>>,
     <<<<"p", "l", "a", "n", "c", "k", "h", ";">>, <<"U+00E9">>>>,
     <<<<"p", "l", "a", "n", "k", "v", ";">>, <<"U+00E9">>>>,
     <<<<"p", "l", "u", "s", ";">>, <<"+">>>>,
     <<<<"p", "l", "u", "s", "a", "c", "i", "r", ";">>, <<"U+">>>>,
     <<<<"p", "l", "u", "s", "b", ";">>, <<"U+">>>>,
     <<<<"p", "l", "u", "s", "c", "i", "r", ";">>, <<"U+">>>>,
     <<<<"p", "l", "u", "s", "d", "o", ";">>, <<"U+">>>>,
     <<<<"p", "l", "u", "s", "d", "u", ";">>, <<"U+">>>>,
     <<<<"p", "l", "u", "s", "e", ";">>, <<"U+">>>>,
     <<<<"p", "l", "u", "s", "m", "n">>, <<"U+">>>>,
     <<<<"p", "l", "u", "s", "m", "n", ";">>, <<"U+">>>>,
     <<<<"p", "l", "u", "s", "s", "i", "m", ";">>, <<"U+">>>>,
     <<<<"p", "l", "u", "s", "t", "w", "o", ";">>, <<"U+">>>>,
     <<<<"p", "m", ";">>, <<"U+">>>>,
     <<<<"p", "o", "i", "n", "t", "i", "n", "t", ";">>, <<"U+">>>>,
     <<<<"p", "o", "p", "f", ";">>, <<"U+00E9">>>>,
     <<<<"p", "o", "u", "n", "d">>, <<"U+">>>>,
     <<<<"p", "o", "u", "n", "d", ";">>, <<"U+">>>>,
     <<<<"p", "r", ";">>, <<"U+">>>>, <<<<"p", "r", "E", ";">>, <<"U+">>>>,
     <<<<"p", "r", "a", "p", ";">>, <<"U+">>>>,
     <<<<"p", "r", "c", "u", "e", ";">>, <<"U+">>>>,
     <<<<"p", "r", "e", ";">>, <<"U+">>>>,
     <<<<"p", "r", "e", "c", ";">>, <<"U+">>>>,
     <<<<"p", "r", "e", "c", "a", "p", "p", "r", "o", "x", ";">>, <<"U+">>>>,
     <<<<"p", "r", "e", "c", "c", "u", "r", "l", "y", "e", "q", ";">>, <<"U+">>>>,
     <<<<"p", "r", "e", "c", "e", "q", ";">>, <<"U+">>>>,
     <<<<"p", "r", "e", "c", "n", "a", "p", "p", "r", "o", "x", ";">>, <<"U+">>>>,
     <<<<"p", "r", "e", "c", "n", "e", "q", "q", ";">>, <<"U+">>>>,
     <<<<"p", "r", "e", "c", "n", "s", "i", "m", ";">>, <<"U+">>>>,
     <<<<"p", "r", "e", "c", "s", "i", "m", ";">>, <<"U+">>>>,
     <<<<"p", "r", "i", "m", "e", ";">>, <<"U+">>>>,
     <<<<"p", "r", "i", "m", "e", "s", ";">>, <<"U+03D2">>>>,
     <<<<"p", "r", "n", "E", ";">>, <<"U+">>>>,
     <<<<"p", "r", "n", "a", "p", ";">>, <<"U+">>>>,
     <<<<"p", "r", "n", "s", "i", "m", ";">>, <<"U+">>>>,
     <<<<"p", "r", "o", "d", ";">>, <<"U+">>>>,
     <<<<"p", "r", "o", "f", "a", "l", "a", "r", ";">>, <<"U+">>>>,
     <<<<"p", "r", "o", "f", "l", "i", "n", "e", ";">>, <<"U+">>>>,
     <<<<"p", "r", "o", "f", "s", "u", "r", "f", ";">>, <<"U+">>>>,
     <<<<"p", "r", "o", "p", ";">>, <<"U+">>>>,
     <<<<"p", "r", "o", "p", "t", "o", ";">>, <<"U+">>>>,
     <<<<"p", "r", "s", "i", "m", ";">>, <<"U+">>>>,
     <<<<"p", "r", "u", "r", "e", "l", ";">>, <<"U+">>>>,
     <<<<"p", "s", "c", "r", ";">>, <<"U+00E9">>>>,
     <<<<"p", "s", "i", ";">>, <<"U+00E9">>>>,
     <<<<"p", "u", "n", "c", "s", "p", ";">>, <<"U+">>>>,
     <<<<"q", "f", "r", ";">>, <<"U+00E9">>>>,
     <<<<"q", "i", "n", "t", ";">>, <<"U+">>>>,
     <<<<"q", "o", "p", "f", ";">>, <<"U+00E9">>>>,
     <<<<"q", "p", "r", "i", "m", "e", ";">>, <<"U+">>>>,
     <<<<"q", "s", "c", "r", ";">>, <<"U+00E9">>>>,
     <<<<"q", "u", "a", "t", "e", "r", "n", "i", "o", "n", "s", ";">>, <<"U+03D2">>>>,
     <<<<"q", "u", "a", "t", "i", "n", "t", ";">>, <<"U+">>>>,
     <<<<"q", "u", "e", "s", "t", ";">>, <<"?">>>>,
     <<<<"q", "u", "e", "s", "t", "e", "q", ";">>, <<"U+">>>>,
     <<<<"q", "u", "o", "t">>, <<"\"">>>>,
     <<<<"q", "u", "o", "t", ";">>, <<"\"">>>>,
     <<<<"r", "A", "a", "r", "r", ";">>, <<"U+">>>>,
     <<<<"r", "A", "r", "r", ";">>, <<"U+">>>>,
     <<<<"r", "A", "t", "a", "i", "l", ";">>, <<"U+">>>>,
     <<<<"r", "B", "a", "r", "r", ";">>, <<"U+">>>>,
     <<<<"r", "H", "a", "r", ";">>, <<"U+">>>>,
     <<<<"r", "a", "c", "e", ";">>, <<"U+", "U+">>>>,
     <<<<"r", "a", "c", "u", "t", "e", ";">>, <<"U+00E9">>>>,
     <<<<"r", "a", "d", "i", "c", ";">>, <<"U+">>>>,
     <<<<"r", "a", "e", "m", "p", "t", "y", "v", ";">>, <<"U+">>>>,
     <<<<"r", "a", "n", "g", ";">>, <<"U+">>>>,
     <<<<"r", "a", "n", "g", "d", ";">>, <<"U+">>>>,
     <<<<"r", "a", "n", "g", "e", ";">>, <<"U+">>>>,
     <<<<"r", "a", "n", "g", "l", "e", ";">>, <<"U+">>>>,
     <<<<"r", "a", "q", "u", "o">>, <<"U+">>>>,
     <<<<"r", "a", "q", "u", "o", ";">>, <<"U+">>>>,
     <<<<"r", "a", "r", "r", ";">>, <<"U+">>>>,
     <<<<"r", "a", "r", "r", "a", "p", ";">>, <<"U+">>>>,
     <<<<"r", "a", "r", "r", "b", ";">>, <<"U+">>>>,
     <<<<"r", "a", "r", "r", "b", "f", "s", ";">>, <<"U+">>>>,
     <<<<"r", "a", "r", "r", "c", ";">>, <<"U+">>>>,
     <<<<"r", "a", "r", "r", "f", "s", ";">>, <<"U+">>>>,
     <<<<"r", "a", "r", "r", "h", "k", ";">>, <<"U+">>>>,
     <<<<"r", "a", "r", "r", "l", "p", ";">>, <<"U+">>>>,
     <<<<"r", "a", "r", "r", "p", "l", ";">>, <<"U+">>>>,
     <<<<"r", "a", "r", "r", "s", "i", "m", ";">>, <<"U+">>>>,
     <<<<"r", "a", "r", "r", "t", "l", ";">>, <<"U+">>>>,
     <<<<"r", "a", "r", "r", "w", ";">>, <<"U+">>>>,
     <<<<"r", "a", "t", "a", "i", "l", ";">>, <<"U+">>>>,
     <<<<"r", "a", "t", "i", "o", ";">>, <<"U+">>>>,
     <<<<"r", "a", "t", "i", "o", "n", "a", "l", "s", ";">>, <<"U+03D2">>>>,
     <<<<"r", "b", "a", "r", "r", ";">>, <<"U+">>>>,
     <<<<"r", "b", "b", "r", "k", ";">>, <<"U+">>>>,
     <<<<"r", "b", "r", "a", "c", "e", ";">>, <<"}">>>>,
     <<<<"r", "b", "r", "a", "c", "k", ";">>, <<"]">>>>,
     <<<<"r", "b", "r", "k", "e", ";">>, <<"U+">>>>,
     <<<<"r", "b", "r", "k", "s", "l", "d", ";">>, <<"U+">>>>,
     <<<<"r", "b", "r", "k", "s", "l", "u", ";">>, <<"U+">>>>,
     <<<<"r", "c", "a", "r", "o", "n", ";">>, <<"U+00E9">>>>,
     <<<<"r", "c", "e", "d", "i", "l", ";">>, <<"U+00E9">>>>,
     <<<<"r", "c", "e", "i", "l", ";">>, <<"U+">>>>,
     <<<<"r", "c", "u", "b", ";">>, <<"}">>>>,
     <<<<"r", "c", "y", ";">>, <<"U+00E9">>>>,
     <<<<"r", "d", "c", "a", ";">>, <<"U+">>>>,
     <<<<"r", "d", "l", "d", "h", "a", "r", ";">>, <<"U+">>>>,
     <<<<"r", "d", "q", "u", "o", ";">>, <<"U+">>>>,
     <<<<"r", "d", "q", "u", "o", "r", ";">>, <<"U+">>>>,
     <<<<"r", "d", "s", "h", ";">>, <<"U+">>>>,
     <<<<"r", "e", "a", "l", ";">>, <<"U+03D2">>>>,
     <<<<"r", "e", "a", "l", "i", "n", "e", ";">>, <<"U+03D2">>>>,
     <<<<"r", "e", "a", "l", "p", "a", "r", "t", ";">>, <<"U+03D2">>>>,
     <<<<"r", "e", "a", "l", "s", ";">>, <<"U+03D2">>>>,
     <<<<"r", "e", "c", "t", ";">>, <<"U+">>>>,
     <<<<"r", "e", "g">>, <<"U+">>>>, <<<<"r", "e", "g", ";">>, <<"U+">>>>,
     <<<<"r", "f", "i", "s", "h", "t", ";">>, <<"U+">>>>,
     <<<<"r", "f", "l", "o", "o", "r", ";">>, <<"U+">>>>,
     <<<<"r", "f", "r", ";">>, <<"U+00E9">>>>,
     <<<<"r", "h", "a", "r", "d", ";">>, <<"U+">>>>,
     <<<<"r", "h", "a", "r", "u", ";">>, <<"U+">>>>,
     <<<<"r", "h", "a", "r", "u", "l", ";">>, <<"U+">>>>,
     <<<<"r", "h", "o", ";">>, <<"U+00E9">>>>,
     <<<<"r", "h", "o", "v", ";">>, <<"U+00E9">>>>,
     <<<<"r", "i", "g", "h", "t", "a", "r", "r", "o", "w", ";">>, <<"U+">>>>,
     <<<<"r", "i", "g", "h", "t", "a", "r", "r", "o", "w", "t", "a", "i", "l", ";">>, <<"U+">>>>,
     <<<<"r", "i", "g", "h", "t", "h", "a", "r", "p", "o", "o", "n", "d", "o", "w", "n", ";">>, <<"U+">>>>,
     <<<<"r", "i", "g", "h", "t", "h", "a", "r", "p", "o", "o", "n", "u", "p", ";">>, <<"U+">>>>,
     <<<<"r", "i", "g", "h", "t", "l", "e", "f", "t", "a", "r", "r", "o", "w", "s", ";">>, <<"U+">>>>,
     <<<<"r", "i", "g", "h", "t", "l", "e", "f", "t", "h", "a", "r", "p", "o", "o", "n", "s", ";">>, <<"U+">>>>,
     <<<<"r", "i", "g", "h", "t", "r", "i", "g", "h", "t", "a", "r", "r", "o", "w", "s", ";">>, <<"U+">>>>,
     <<<<"r", "i", "g", "h", "t", "s", "q", "u", "i", "g", "a", "r", "r", "o", "w", ";">>, <<"U+">>>>,
     <<<<"r", "i", "g", "h", "t", "t", "h", "r", "e", "e", "t", "i", "m", "e", "s", ";">>, <<"U+">>>>,
     <<<<"r", "i", "n", "g", ";">>, <<"U+">>>>,
     <<<<"r", "i", "s", "i", "n", "g", "d", "o", "t", "s", "e", "q", ";">>, <<"U+">>>>,
     <<<<"r", "l", "a", "r", "r", ";">>, <<"U+">>>>,
     <<<<"r", "l", "h", "a", "r", ";">>, <<"U+">>>>,
     <<<<"r", "l", "m", ";">>, <<"U+">>>>,
     <<<<"r", "m", "o", "u", "s", "t", ";">>, <<"U+">>>>,
     <<<<"r", "m", "o", "u", "s", "t", "a", "c", "h", "e", ";">>, <<"U+">>>>,
     <<<<"r", "n", "m", "i", "d", ";">>, <<"U+">>>>,
     <<<<"r", "o", "a", "n", "g", ";">>, <<"U+">>>>,
     <<<<"r", "o", "a", "r", "r", ";">>, <<"U+">>>>,
     <<<<"r", "o", "b", "r", "k", ";">>, <<"U+">>>>,
     <<<<"r", "o", "p", "a", "r", ";">>, <<"U+">>>>,
     <<<<"r", "o", "p", "f", ";">>, <<"U+00E9">>>>,
     <<<<"r", "o", "p", "l", "u", "s", ";">>, <<"U+">>>>,
     <<<<"r", "o", "t", "i", "m", "e", "s", ";">>, <<"U+">>>>,
     <<<<"r", "p", "a", "r", ";">>, <<")">>>>,
     <<<<"r", "p", "a", "r", "g", "t", ";">>, <<"U+">>>>,
     <<<<"r", "p", "p", "o", "l", "i", "n", "t", ";">>, <<"U+">>>>,
     <<<<"r", "r", "a", "r", "r", ";">>, <<"U+">>>>,
     <<<<"r", "s", "a", "q", "u", "o", ";">>, <<"U+">>>>,
     <<<<"r", "s", "c", "r", ";">>, <<"U+00E9">>>>,
     <<<<"r", "s", "h", ";">>, <<"U+">>>>,
     <<<<"r", "s", "q", "b", ";">>, <<"]">>>>,
     <<<<"r", "s", "q", "u", "o", ";">>, <<"U+">>>>,
     <<<<"r", "s", "q", "u", "o", "r", ";">>, <<"U+">>>>,
     <<<<"r", "t", "h", "r", "e", "e", ";">>, <<"U+">>>>,
     <<<<"r", "t", "i", "m", "e", "s", ";">>, <<"U+">>>>,
     <<<<"r", "t", "r", "i", ";">>, <<"U+">>>>,
     <<<<"r", "t", "r", "i", "e", ";">>, <<"U+">>>>,
     <<<<"r", "t", "r", "i", "f", ";">>, <<"U+">>>>,
     <<<<"r", "t", "r", "i", "l", "t", "r", "i", ";">>, <<"U+">>>>,
     <<<<"r", "u", "l", "u", "h", "a", "r", ";">>, <<"U+">>>>,
     <<<<"r", "x", ";">>, <<"U+">>>>,
     <<<<"s", "a", "c", "u", "t", "e", ";">>, <<"U+00E9">>>>,
     <<<<"s", "b", "q", "u", "o", ";">>, <<"U+">>>>,
     <<<<"s", "c", ";">>, <<"U+">>>>, <<<<"s", "c", "E", ";">>, <<"U+">>>>,
     <<<<"s", "c", "a", "p", ";">>, <<"U+">>>>,
     <<<<"s", "c", "a", "r", "o", "n", ";">>, <<"U+00E9">>>>,
     <<<<"s", "c", "c", "u", "e", ";">>, <<"U+">>>>,
     <<<<"s", "c", "e", ";">>, <<"U+">>>>,
     <<<<"s", "c", "e", "d", "i", "l", ";">>, <<"U+00E9">>>>,
     <<<<"s", "c", "i", "r", "c", ";">>, <<"U+00E9">>>>,
     <<<<"s", "c", "n", "E", ";">>, <<"U+">>>>,
     <<<<"s", "c", "n", "a", "p", ";">>, <<"U+">>>>,
     <<<<"s", "c", "n", "s", "i", "m", ";">>, <<"U+">>>>,
     <<<<"s", "c", "p", "o", "l", "i", "n", "t", ";">>, <<"U+">>>>,
     <<<<"s", "c", "s", "i", "m", ";">>, <<"U+">>>>,
     <<<<"s", "c", "y", ";">>, <<"U+00E9">>>>,
     <<<<"s", "d", "o", "t", ";">>, <<"U+">>>>,
     <<<<"s", "d", "o", "t", "b", ";">>, <<"U+">>>>,
     <<<<"s", "d", "o", "t", "e", ";">>, <<"U+">>>>,
     <<<<"s", "e", "A", "r", "r", ";">>, <<"U+">>>>,
     <<<<"s", "e", "a", "r", "h", "k", ";">>, <<"U+">>>>,
     <<<<"s", "e", "a", "r", "r", ";">>, <<"U+">>>>,
     <<<<"s", "e", "a", "r", "r", "o", "w", ";">>, <<"U+">>>>,
     <<<<"s", "e", "c", "t">>, <<"U+">>>>,
     <<<<"s", "e", "c", "t", ";">>, <<"U+">>>>,
     <<<<"s", "e", "m", "i", ";">>, <<";">>>>,
     <<<<"s", "e", "s", "w", "a", "r", ";">>, <<"U+">>>>,
     <<<<"s", "e", "t", "m", "i", "n", "u", "s", ";">>, <<"U+">>>>,
     <<<<"s", "e", "t", "m", "n", ";">>, <<"U+">>>>,
     <<<<"s", "e", "x", "t", ";">>, <<"U+">>>>,
     <<<<"s", "f", "r", ";">>, <<"U+00E9">>>>,
     <<<<"s", "f", "r", "o", "w", "n", ";">>, <<"U+">>>>,
     <<<<"s", "h", "a", "r", "p", ";">>, <<"U+">>>>,
     <<<<"s", "h", "c", "h", "c", "y", ";">>, <<"U+00E9">>>>,
     <<<<"s", "h", "c", "y", ";">>, <<"U+00E9">>>>,
     <<<<"s", "h", "o", "r", "t", "m", "i", "d", ";">>, <<"U+">>>>,
     <<<<"s", "h", "o", "r", "t", "p", "a", "r", "a", "l", "l", "e", "l", ";">>, <<"U+">>>>,
     <<<<"s", "h", "y">>, <<"U+">>>>, <<<<"s", "h", "y", ";">>, <<"U+">>>>,
     <<<<"s", "i", "g", "m", "a", ";">>, <<"U+00E9">>>>,
     <<<<"s", "i", "g", "m", "a", "f", ";">>, <<"U+00E9">>>>,
     <<<<"s", "i", "g", "m", "a", "v", ";">>, <<"U+00E9">>>>,
     <<<<"s", "i", "m", ";">>, <<"U+">>>>,
     <<<<"s", "i", "m", "d", "o", "t", ";">>, <<"U+">>>>,
     <<<<"s", "i", "m", "e", ";">>, <<"U+">>>>,
     <<<<"s", "i", "m", "e", "q", ";">>, <<"U+">>>>,
     <<<<"s", "i", "m", "g", ";">>, <<"U+">>>>,
     <<<<"s", "i", "m", "g", "E", ";">>, <<"U+">>>>,
     <<<<"s", "i", "m", "l", ";">>, <<"U+">>>>,
     <<<<"s", "i", "m", "l", "E", ";">>, <<"U+">>>>,
     <<<<"s", "i", "m", "n", "e", ";">>, <<"U+">>>>,
     <<<<"s", "i", "m", "p", "l", "u", "s", ";">>, <<"U+">>>>,
     <<<<"s", "i", "m", "r", "a", "r", "r", ";">>, <<"U+">>>>,
     <<<<"s", "l", "a", "r", "r", ";">>, <<"U+">>>>,
     <<<<"s", "m", "a", "l", "l", "s", "e", "t", "m", "i", "n", "u", "s", ";">>, <<"U+">>>>,
     <<<<"s", "m", "a", "s", "h", "p", ";">>, <<"U+">>>>,
     <<<<"s", "m", "e", "p", "a", "r", "s", "l", ";">>, <<"U+">>>>,
     <<<<"s", "m", "i", "d", ";">>, <<"U+">>>>,
     <<<<"s", "m", "i", "l", "e", ";">>, <<"U+">>>>,
     <<<<"s", "m", "t", ";">>, <<"U+">>>>,
     <<<<"s", "m", "t", "e", ";">>, <<"U+">>>>,
     <<<<"s", "m", "t", "e", "s", ";">>, <<"U+", "U+">>>>,
     <<<<"s", "o", "f", "t", "c", "y", ";">>, <<"U+00E9">>>>,
     <<<<"s", "o", "l", ";">>, <<"/">>>>,
     <<<<"s", "o", "l", "b", ";">>, <<"U+">>>>,
     <<<<"s", "o", "l", "b", "a", "r", ";">>, <<"U+">>>>,
     <<<<"s", "o", "p", "f", ";">>, <<"U+00E9">>>>,
     <<<<"s", "p", "a", "d", "e", "s", ";">>, <<"U+">>>>,
     <<<<"s", "p", "a", "d", "e", "s", "u", "i", "t", ";">>, <<"U+">>>>,
     <<<<"s", "p", "a", "r", ";">>, <<"U+">>>>,
     <<<<"s", "q", "c", "a", "p", ";">>, <<"U+">>>>,
     <<<<"s", "q", "c", "a", "p", "s", ";">>, <<"U+", "U+">>>>,
     <<<<"s", "q", "c", "u", "p", ";">>, <<"U+">>>>,
     <<<<"s", "q", "c", "u", "p", "s", ";">>, <<"U+", "U+">>>>,
     <<<<"s", "q", "s", "u", "b", ";">>, <<"U+">>>>,
     <<<<"s", "q", "s", "u", "b", "e", ";">>, <<"U+">>>>,
     <<<<"s", "q", "s", "u", "b", "s", "e", "t", ";">>, <<"U+">>>>,
     <<<<"s", "q", "s", "u", "b", "s", "e", "t", "e", "q", ";">>, <<"U+">>>>,
     <<<<"s", "q", "s", "u", "p", ";">>, <<"U+">>>>,
     <<<<"s", "q", "s", "u", "p", "e", ";">>, <<"U+">>>>,
     <<<<"s", "q", "s", "u", "p", "s", "e", "t", ";">>, <<"U+">>>>,
     <<<<"s", "q", "s", "u", "p", "s", "e", "t", "e", "q", ";">>, <<"U+">>>>,
     <<<<"s", "q", "u", ";">>, <<"U+">>>>,
     <<<<"s", "q", "u", "a", "r", "e", ";">>, <<"U+">>>>,
     <<<<"s", "q", "u", "a", "r", "f", ";">>, <<"U+">>>>,
     <<<<"s", "q", "u", "f", ";">>, <<"U+">>>>,
     <<<<"s", "r", "a", "r", "r", ";">>, <<"U+">>>>,
     <<<<"s", "s", "c", "r", ";">>, <<"U+00E9">>>>,
     <<<<"s", "s", "e", "t", "m", "n", ";">>, <<"U+">>>>,
     <<<<"s", "s", "m", "i", "l", "e", ";">>, <<"U+">>>>,
     <<<<"s", "s", "t", "a", "r", "f", ";">>, <<"U+">>>>,
     <<<<"s", "t", "a", "r", ";">>, <<"U+">>>>,
     <<<<"s", "t", "a", "r", "f", ";">>, <<"U+">>>>,
     <<<<"s", "t", "r", "a", "i", "g", "h", "t", "e", "p", "s", "i", "l", "o", "n", ";">>, <<"U+00E9">>>>,
     <<<<"s", "t", "r", "a", "i", "g", "h", "t", "p", "h", "i", ";">>, <<"U+00E9">>>>,
     <<<<"s", "t", "r", "n", "s", ";">>, <<"U+">>>>,
     <<<<"s", "u", "b", ";">>, <<"U+">>>>,
     <<<<"s", "u", "b", "E", ";">>, <<"U+">>>>,
     <<<<"s", "u", "b", "d", "o", "t", ";">>, <<"U+">>>>,
     <<<<"s", "u", "b", "e", ";">>, <<"U+">>>>,
     <<<<"s", "u", "b", "e", "d", "o", "t", ";">>, <<"U+">>>>,
     <<<<"s", "u", "b", "m", "u", "l", "t", ";">>, <<"U+">>>>,
     <<<<"s", "u", "b", "n", "E", ";">>, <<"U+">>>>,
     <<<<"s", "u", "b", "n", "e", ";">>, <<"U+">>>>,
     <<<<"s", "u", "b", "p", "l", "u", "s", ";">>, <<"U+">>>>,
     <<<<"s", "u", "b", "r", "a", "r", "r", ";">>, <<"U+">>>>,
     <<<<"s", "u", "b", "s", "e", "t", ";">>, <<"U+">>>>,
     <<<<"s", "u", "b", "s", "e", "t", "e", "q", ";">>, <<"U+">>>>,
     <<<<"s", "u", "b", "s", "e", "t", "e", "q", "q", ";">>, <<"U+">>>>,
     <<<<"s", "u", "b", "s", "e", "t", "n", "e", "q", ";">>, <<"U+">>>>,
     <<<<"s", "u", "b", "s", "e", "t", "n", "e", "q", "q", ";">>, <<"U+">>>>,
     <<<<"s", "u", "b", "s", "i", "m", ";">>, <<"U+">>>>,
     <<<<"s", "u", "b", "s", "u", "b", ";">>, <<"U+">>>>,
     <<<<"s", "u", "b", "s", "u", "p", ";">>, <<"U+">>>>,
     <<<<"s", "u", "c", "c", ";">>, <<"U+">>>>,
     <<<<"s", "u", "c", "c", "a", "p", "p", "r", "o", "x", ";">>, <<"U+">>>>,
     <<<<"s", "u", "c", "c", "c", "u", "r", "l", "y", "e", "q", ";">>, <<"U+">>>>,
     <<<<"s", "u", "c", "c", "e", "q", ";">>, <<"U+">>>>,
     <<<<"s", "u", "c", "c", "n", "a", "p", "p", "r", "o", "x", ";">>, <<"U+">>>>,
     <<<<"s", "u", "c", "c", "n", "e", "q", "q", ";">>, <<"U+">>>>,
     <<<<"s", "u", "c", "c", "n", "s", "i", "m", ";">>, <<"U+">>>>,
     <<<<"s", "u", "c", "c", "s", "i", "m", ";">>, <<"U+">>>>,
     <<<<"s", "u", "m", ";">>, <<"U+">>>>,
     <<<<"s", "u", "n", "g", ";">>, <<"U+">>>>,
     <<<<"s", "u", "p", "1">>, <<"U+00B2">>>>,
     <<<<"s", "u", "p", "1", ";">>, <<"U+00B2">>>>,
     <<<<"s", "u", "p", "2">>, <<"U+00B2">>>>,
     <<<<"s", "u", "p", "2", ";">>, <<"U+00B2">>>>,
     <<<<"s", "u", "p", "3">>, <<"U+00B2">>>>,
     <<<<"s", "u", "p", "3", ";">>, <<"U+00B2">>>>,
     <<<<"s", "u", "p", ";">>, <<"U+">>>>,
     <<<<"s", "u", "p", "E", ";">>, <<"U+">>>>,
     <<<<"s", "u", "p", "d", "o", "t", ";">>, <<"U+">>>>,
     <<<<"s", "u", "p", "d", "s", "u", "b", ";">>, <<"U+">>>>,
     <<<<"s", "u", "p", "e", ";">>, <<"U+">>>>,
     <<<<"s", "u", "p", "e", "d", "o", "t", ";">>, <<"U+">>>>,
     <<<<"s", "u", "p", "h", "s", "o", "l", ";">>, <<"U+">>>>,
     <<<<"s", "u", "p", "h", "s", "u", "b", ";">>, <<"U+">>>>,
     <<<<"s", "u", "p", "l", "a", "r", "r", ";">>, <<"U+">>>>,
     <<<<"s", "u", "p", "m", "u", "l", "t", ";">>, <<"U+">>>>,
     <<<<"s", "u", "p", "n", "E", ";">>, <<"U+">>>>,
     <<<<"s", "u", "p", "n", "e", ";">>, <<"U+">>>>,
     <<<<"s", "u", "p", "p", "l", "u", "s", ";">>, <<"U+">>>>,
     <<<<"s", "u", "p", "s", "e", "t", ";">>, <<"U+">>>>,
     <<<<"s", "u", "p", "s", "e", "t", "e", "q", ";">>, <<"U+">>>>,
     <<<<"s", "u", "p", "s", "e", "t", "e", "q", "q", ";">>, <<"U+">>>>,
     <<<<"s", "u", "p", "s", "e", "t", "n", "e", "q", ";">>, <<"U+">>>>,
     <<<<"s", "u", "p", "s", "e", "t", "n", "e", "q", "q", ";">>, <<"U+">>>>,
     <<<<"s", "u", "p", "s", "i", "m", ";">>, <<"U+">>>>,
     <<<<"s", "u", "p", "s", "u", "b", ";">>, <<"U+">>>>,
     <<<<"s", "u", "p", "s", "u", "p", ";">>, <<"U+">>>>,
     <<<<"s", "w", "A", "r", "r", ";">>, <<"U+">>>>,
     <<<<"s", "w", "a", "r", "h", "k", ";">>, <<"U+">>>>,
     <<<<"s", "w", "a", "r", "r", ";">>, <<"U+">>>>,
     <<<<"s", "w", "a", "r", "r", "o", "w", ";">>, <<"U+">>>>,
     <<<<"s", "w", "n", "w", "a", "r", ";">>, <<"U+">>>>,
     <<<<"s", "z", "l", "i", "g">>, <<"U+00E9">>>>,
     <<<<"s", "z", "l", "i", "g", ";">>, <<"U+00E9">>>>,
     <<<<"t", "a", "r", "g", "e", "t", ";">>, <<"U+">>>>,
     <<<<"t", "a", "u", ";">>, <<"U+00E9">>>>,
     <<<<"t", "b", "r", "k", ";">>, <<"U+">>>>,
     <<<<"t", "c", "a", "r", "o", "n", ";">>, <<"U+00E9">>>>,
     <<<<"t", "c", "e", "d", "i", "l", ";">>, <<"U+00E9">>>>,
     <<<<"t", "c", "y", ";">>, <<"U+00E9">>>>,
     <<<<"t", "d", "o", "t", ";">>, <<"U+">>>>,
     <<<<"t", "e", "l", "r", "e", "c", ";">>, <<"U+">>>>,
     <<<<"t", "f", "r", ";">>, <<"U+00E9">>>>,
     <<<<"t", "h", "e", "r", "e", "4", ";">>, <<"U+">>>>,
     <<<<"t", "h", "e", "r", "e", "f", "o", "r", "e", ";">>, <<"U+">>>>,
     <<<<"t", "h", "e", "t", "a", ";">>, <<"U+00E9">>>>,
     <<<<"t", "h", "e", "t", "a", "s", "y", "m", ";">>, <<"U+00E9">>>>,
     <<<<"t", "h", "e", "t", "a", "v", ";">>, <<"U+00E9">>>>,
     <<<<"t", "h", "i", "c", "k", "a", "p", "p", "r", "o", "x", ";">>, <<"U+">>>>,
     <<<<"t", "h", "i", "c", "k", "s", "i", "m", ";">>, <<"U+">>>>,
     <<<<"t", "h", "i", "n", "s", "p", ";">>, <<"U+">>>>,
     <<<<"t", "h", "k", "a", "p", ";">>, <<"U+">>>>,
     <<<<"t", "h", "k", "s", "i", "m", ";">>, <<"U+">>>>,
     <<<<"t", "h", "o", "r", "n">>, <<"U+00E9">>>>,
     <<<<"t", "h", "o", "r", "n", ";">>, <<"U+00E9">>>>,
     <<<<"t", "i", "l", "d", "e", ";">>, <<"U+">>>>,
     <<<<"t", "i", "m", "e", "s">>, <<"U+">>>>,
     <<<<"t", "i", "m", "e", "s", ";">>, <<"U+">>>>,
     <<<<"t", "i", "m", "e", "s", "b", ";">>, <<"U+">>>>,
     <<<<"t", "i", "m", "e", "s", "b", "a", "r", ";">>, <<"U+">>>>,
     <<<<"t", "i", "m", "e", "s", "d", ";">>, <<"U+">>>>,
     <<<<"t", "i", "n", "t", ";">>, <<"U+">>>>,
     <<<<"t", "o", "e", "a", ";">>, <<"U+">>>>,
     <<<<"t", "o", "p", ";">>, <<"U+">>>>,
     <<<<"t", "o", "p", "b", "o", "t", ";">>, <<"U+">>>>,
     <<<<"t", "o", "p", "c", "i", "r", ";">>, <<"U+">>>>,
     <<<<"t", "o", "p", "f", ";">>, <<"U+00E9">>>>,
     <<<<"t", "o", "p", "f", "o", "r", "k", ";">>, <<"U+">>>>,
     <<<<"t", "o", "s", "a", ";">>, <<"U+">>>>,
     <<<<"t", "p", "r", "i", "m", "e", ";">>, <<"U+">>>>,
     <<<<"t", "r", "a", "d", "e", ";">>, <<"U+">>>>,
     <<<<"t", "r", "i", "a", "n", "g", "l", "e", ";">>, <<"U+">>>>,
     <<<<"t", "r", "i", "a", "n", "g", "l", "e", "d", "o", "w", "n", ";">>, <<"U+">>>>,
     <<<<"t", "r", "i", "a", "n", "g", "l", "e", "l", "e", "f", "t", ";">>, <<"U+">>>>,
     <<<<"t", "r", "i", "a", "n", "g", "l", "e", "l", "e", "f", "t", "e", "q", ";">>, <<"U+">>>>,
     <<<<"t", "r", "i", "a", "n", "g", "l", "e", "q", ";">>, <<"U+">>>>,
     <<<<"t", "r", "i", "a", "n", "g", "l", "e", "r", "i", "g", "h", "t", ";">>, <<"U+">>>>,
     <<<<"t", "r", "i", "a", "n", "g", "l", "e", "r", "i", "g", "h", "t", "e", "q", ";">>, <<"U+">>>>,
     <<<<"t", "r", "i", "d", "o", "t", ";">>, <<"U+">>>>,
     <<<<"t", "r", "i", "e", ";">>, <<"U+">>>>,
     <<<<"t", "r", "i", "m", "i", "n", "u", "s", ";">>, <<"U+">>>>,
     <<<<"t", "r", "i", "p", "l", "u", "s", ";">>, <<"U+">>>>,
     <<<<"t", "r", "i", "s", "b", ";">>, <<"U+">>>>,
     <<<<"t", "r", "i", "t", "i", "m", "e", ";">>, <<"U+">>>>,
     <<<<"t", "r", "p", "e", "z", "i", "u", "m", ";">>, <<"U+">>>>,
     <<<<"t", "s", "c", "r", ";">>, <<"U+00E9">>>>,
     <<<<"t", "s", "c", "y", ";">>, <<"U+00E9">>>>,
     <<<<"t", "s", "h", "c", "y", ";">>, <<"U+00E9">>>>,
     <<<<"t", "s", "t", "r", "o", "k", ";">>, <<"U+00E9">>>>,
     <<<<"t", "w", "i", "x", "t", ";">>, <<"U+">>>>,
     <<<<"t", "w", "o", "h", "e", "a", "d", "l", "e", "f", "t", "a", "r", "r", "o", "w", ";">>, <<"U+">>>>,
     <<<<"t", "w", "o", "h", "e", "a", "d", "r", "i", "g", "h", "t", "a", "r", "r", "o", "w", ";">>, <<"U+">>>>,
     <<<<"u", "A", "r", "r", ";">>, <<"U+">>>>,
     <<<<"u", "H", "a", "r", ";">>, <<"U+">>>>,
     <<<<"u", "a", "c", "u", "t", "e">>, <<"U+00E9">>>>,
     <<<<"u", "a", "c", "u", "t", "e", ";">>, <<"U+00E9">>>>,
     <<<<"u", "a", "r", "r", ";">>, <<"U+">>>>,
     <<<<"u", "b", "r", "c", "y", ";">>, <<"U+00E9">>>>,
     <<<<"u", "b", "r", "e", "v", "e", ";">>, <<"U+00E9">>>>,
     <<<<"u", "c", "i", "r", "c">>, <<"U+00E9">>>>,
     <<<<"u", "c", "i", "r", "c", ";">>, <<"U+00E9">>>>,
     <<<<"u", "c", "y", ";">>, <<"U+00E9">>>>,
     <<<<"u", "d", "a", "r", "r", ";">>, <<"U+">>>>,
     <<<<"u", "d", "b", "l", "a", "c", ";">>, <<"U+00E9">>>>,
     <<<<"u", "d", "h", "a", "r", ";">>, <<"U+">>>>,
     <<<<"u", "f", "i", "s", "h", "t", ";">>, <<"U+">>>>,
     <<<<"u", "f", "r", ";">>, <<"U+00E9">>>>,
     <<<<"u", "g", "r", "a", "v", "e">>, <<"U+00E9">>>>,
     <<<<"u", "g", "r", "a", "v", "e", ";">>, <<"U+00E9">>>>,
     <<<<"u", "h", "a", "r", "l", ";">>, <<"U+">>>>,
     <<<<"u", "h", "a", "r", "r", ";">>, <<"U+">>>>,
     <<<<"u", "h", "b", "l", "k", ";">>, <<"U+">>>>,
     <<<<"u", "l", "c", "o", "r", "n", ";">>, <<"U+">>>>,
     <<<<"u", "l", "c", "o", "r", "n", "e", "r", ";">>, <<"U+">>>>,
     <<<<"u", "l", "c", "r", "o", "p", ";">>, <<"U+">>>>,
     <<<<"u", "l", "t", "r", "i", ";">>, <<"U+">>>>,
     <<<<"u", "m", "a", "c", "r", ";">>, <<"U+00E9">>>>,
     <<<<"u", "m", "l">>, <<"U+">>>>, <<<<"u", "m", "l", ";">>, <<"U+">>>>,
     <<<<"u", "o", "g", "o", "n", ";">>, <<"U+00E9">>>>,
     <<<<"u", "o", "p", "f", ";">>, <<"U+00E9">>>>,
     <<<<"u", "p", "a", "r", "r", "o", "w", ";">>, <<"U+">>>>,
     <<<<"u", "p", "d", "o", "w", "n", "a", "r", "r", "o", "w", ";">>, <<"U+">>>>,
     <<<<"u", "p", "h", "a", "r", "p", "o", "o", "n", "l", "e", "f", "t", ";">>, <<"U+">>>>,
     <<<<"u", "p", "h", "a", "r", "p", "o", "o", "n", "r", "i", "g", "h", "t", ";">>, <<"U+">>>>,
     <<<<"u", "p", "l", "u", "s", ";">>, <<"U+">>>>,
     <<<<"u", "p", "s", "i", ";">>, <<"U+00E9">>>>,
     <<<<"u", "p", "s", "i", "h", ";">>, <<"U+03D2">>>>,
     <<<<"u", "p", "s", "i", "l", "o", "n", ";">>, <<"U+00E9">>>>,
     <<<<"u", "p", "u", "p", "a", "r", "r", "o", "w", "s", ";">>, <<"U+">>>>,
     <<<<"u", "r", "c", "o", "r", "n", ";">>, <<"U+">>>>,
     <<<<"u", "r", "c", "o", "r", "n", "e", "r", ";">>, <<"U+">>>>,
     <<<<"u", "r", "c", "r", "o", "p", ";">>, <<"U+">>>>,
     <<<<"u", "r", "i", "n", "g", ";">>, <<"U+00E9">>>>,
     <<<<"u", "r", "t", "r", "i", ";">>, <<"U+">>>>,
     <<<<"u", "s", "c", "r", ";">>, <<"U+00E9">>>>,
     <<<<"u", "t", "d", "o", "t", ";">>, <<"U+">>>>,
     <<<<"u", "t", "i", "l", "d", "e", ";">>, <<"U+00E9">>>>,
     <<<<"u", "t", "r", "i", ";">>, <<"U+">>>>,
     <<<<"u", "t", "r", "i", "f", ";">>, <<"U+">>>>,
     <<<<"u", "u", "a", "r", "r", ";">>, <<"U+">>>>,
     <<<<"u", "u", "m", "l">>, <<"U+00E9">>>>,
     <<<<"u", "u", "m", "l", ";">>, <<"U+00E9">>>>,
     <<<<"u", "w", "a", "n", "g", "l", "e", ";">>, <<"U+">>>>,
     <<<<"v", "A", "r", "r", ";">>, <<"U+">>>>,
     <<<<"v", "B", "a", "r", ";">>, <<"U+">>>>,
     <<<<"v", "B", "a", "r", "v", ";">>, <<"U+">>>>,
     <<<<"v", "D", "a", "s", "h", ";">>, <<"U+">>>>,
     <<<<"v", "a", "n", "g", "r", "t", ";">>, <<"U+">>>>,
     <<<<"v", "a", "r", "e", "p", "s", "i", "l", "o", "n", ";">>, <<"U+00E9">>>>,
     <<<<"v", "a", "r", "k", "a", "p", "p", "a", ";">>, <<"U+00E9">>>>,
     <<<<"v", "a", "r", "n", "o", "t", "h", "i", "n", "g", ";">>, <<"U+">>>>,
     <<<<"v", "a", "r", "p", "h", "i", ";">>, <<"U+00E9">>>>,
     <<<<"v", "a", "r", "p", "i", ";">>, <<"U+00E9">>>>,
     <<<<"v", "a", "r", "p", "r", "o", "p", "t", "o", ";">>, <<"U+">>>>,
     <<<<"v", "a", "r", "r", ";">>, <<"U+">>>>,
     <<<<"v", "a", "r", "r", "h", "o", ";">>, <<"U+00E9">>>>,
     <<<<"v", "a", "r", "s", "i", "g", "m", "a", ";">>, <<"U+00E9">>>>,
     <<<<"v", "a", "r", "s", "u", "b", "s", "e", "t", "n", "e", "q", ";">>, <<"U+", "U+">>>>,
     <<<<"v", "a", "r", "s", "u", "b", "s", "e", "t", "n", "e", "q", "q", ";">>, <<"U+", "U+">>>>,
     <<<<"v", "a", "r", "s", "u", "p", "s", "e", "t", "n", "e", "q", ";">>, <<"U+", "U+">>>>,
     <<<<"v", "a", "r", "s", "u", "p", "s", "e", "t", "n", "e", "q", "q", ";">>, <<"U+", "U+">>>>,
     <<<<"v", "a", "r", "t", "h", "e", "t", "a", ";">>, <<"U+00E9">>>>,
     <<<<"v", "a", "r", "t", "r", "i", "a", "n", "g", "l", "e", "l", "e", "f", "t", ";">>, <<"U+">>>>,
     <<<<"v", "a", "r", "t", "r", "i", "a", "n", "g", "l", "e", "r", "i", "g", "h", "t", ";">>, <<"U+">>>>,
     <<<<"v", "c", "y", ";">>, <<"U+00E9">>>>,
     <<<<"v", "d", "a", "s", "h", ";">>, <<"U+">>>>,
     <<<<"v", "e", "e", ";">>, <<"U+">>>>,
     <<<<"v", "e", "e", "b", "a", "r", ";">>, <<"U+">>>>,
     <<<<"v", "e", "e", "e", "q", ";">>, <<"U+">>>>,
     <<<<"v", "e", "l", "l", "i", "p", ";">>, <<"U+">>>>,
     <<<<"v", "e", "r", "b", "a", "r", ";">>, <<"|">>>>,
     <<<<"v", "e", "r", "t", ";">>, <<"|">>>>,
     <<<<"v", "f", "r", ";">>, <<"U+00E9">>>>,
     <<<<"v", "l", "t", "r", "i", ";">>, <<"U+">>>>,
     <<<<"v", "n", "s", "u", "b", ";">>, <<"U+", "U+">>>>,
     <<<<"v", "n", "s", "u", "p", ";">>, <<"U+", "U+">>>>,
     <<<<"v", "o", "p", "f", ";">>, <<"U+00E9">>>>,
     <<<<"v", "p", "r", "o", "p", ";">>, <<"U+">>>>,
     <<<<"v", "r", "t", "r", "i", ";">>, <<"U+">>>>,
     <<<<"v", "s", "c", "r", ";">>, <<"U+00E9">>>>,
     <<<<"v", "s", "u", "b", "n", "E", ";">>, <<"U+", "U+">>>>,
     <<<<"v", "s", "u", "b", "n", "e", ";">>, <<"U+", "U+">>>>,
     <<<<"v", "s", "u", "p", "n", "E", ";">>, <<"U+", "U+">>>>,
     <<<<"v", "s", "u", "p", "n", "e", ";">>, <<"U+", "U+">>>>,
     <<<<"v", "z", "i", "g", "z", "a", "g", ";">>, <<"U+">>>>,
     <<<<"w", "c", "i", "r", "c", ";">>, <<"U+00E9">>>>,
     <<<<"w", "e", "d", "b", "a", "r", ";">>, <<"U+">>>>,
     <<<<"w", "e", "d", "g", "e", ";">>, <<"U+">>>>,
     <<<<"w", "e", "d", "g", "e", "q", ";">>, <<"U+">>>>,
     <<<<"w", "e", "i", "e", "r", "p", ";">>, <<"U+">>>>,
     <<<<"w", "f", "r", ";">>, <<"U+00E9">>>>,
     <<<<"w", "o", "p", "f", ";">>, <<"U+00E9">>>>,
     <<<<"w", "p", ";">>, <<"U+">>>>, <<<<"w", "r", ";">>, <<"U+">>>>,
     <<<<"w", "r", "e", "a", "t", "h", ";">>, <<"U+">>>>,
     <<<<"w", "s", "c", "r", ";">>, <<"U+00E9">>>>,
     <<<<"x", "c", "a", "p", ";">>, <<"U+">>>>,
     <<<<"x", "c", "i", "r", "c", ";">>, <<"U+">>>>,
     <<<<"x", "c", "u", "p", ";">>, <<"U+">>>>,
     <<<<"x", "d", "t", "r", "i", ";">>, <<"U+">>>>,
     <<<<"x", "f", "r", ";">>, <<"U+00E9">>>>,
     <<<<"x", "h", "A", "r", "r", ";">>, <<"U+">>>>,
     <<<<"x", "h", "a", "r", "r", ";">>, <<"U+">>>>,
     <<<<"x", "i", ";">>, <<"U+00E9">>>>,
     <<<<"x", "l", "A", "r", "r", ";">>, <<"U+">>>>,
     <<<<"x", "l", "a", "r", "r", ";">>, <<"U+">>>>,
     <<<<"x", "m", "a", "p", ";">>, <<"U+">>>>,
     <<<<"x", "n", "i", "s", ";">>, <<"U+">>>>,
     <<<<"x", "o", "d", "o", "t", ";">>, <<"U+">>>>,
     <<<<"x", "o", "p", "f", ";">>, <<"U+00E9">>>>,
     <<<<"x", "o", "p", "l", "u", "s", ";">>, <<"U+">>>>,
     <<<<"x", "o", "t", "i", "m", "e", ";">>, <<"U+">>>>,
     <<<<"x", "r", "A", "r", "r", ";">>, <<"U+">>>>,
     <<<<"x", "r", "a", "r", "r", ";">>, <<"U+">>>>,
     <<<<"x", "s", "c", "r", ";">>, <<"U+00E9">>>>,
     <<<<"x", "s", "q", "c", "u", "p", ";">>, <<"U+">>>>,
     <<<<"x", "u", "p", "l", "u", "s", ";">>, <<"U+">>>>,
     <<<<"x", "u", "t", "r", "i", ";">>, <<"U+">>>>,
     <<<<"x", "v", "e", "e", ";">>, <<"U+">>>>,
     <<<<"x", "w", "e", "d", "g", "e", ";">>, <<"U+">>>>,
     <<<<"y", "a", "c", "u", "t", "e">>, <<"U+00E9">>>>,
     <<<<"y", "a", "c", "u", "t", "e", ";">>, <<"U+00E9">>>>,
     <<<<"y", "a", "c", "y", ";">>, <<"U+00E9">>>>,
     <<<<"y", "c", "i", "r", "c", ";">>, <<"U+00E9">>>>,
     <<<<"y", "c", "y", ";">>, <<"U+00E9">>>>,
     <<<<"y", "e", "n">>, <<"U+">>>>, <<<<"y", "e", "n", ";">>, <<"U+">>>>,
     <<<<"y", "f", "r", ";">>, <<"U+00E9">>>>,
     <<<<"y", "i", "c", "y", ";">>, <<"U+00E9">>>>,
     <<<<"y", "o", "p", "f", ";">>, <<"U+00E9">>>>,
     <<<<"y", "s", "c", "r", ";">>, <<"U+00E9">>>>,
     <<<<"y", "u", "c", "y", ";">>, <<"U+00E9">>>>,
     <<<<"y", "u", "m", "l">>, <<"U+00E9">>>>,
     <<<<"y", "u", "m", "l", ";">>, <<"U+00E9">>>>,
     <<<<"z", "a", "c", "u", "t", "e", ";">>, <<"U+00E9">>>>,
     <<<<"z", "c", "a", "r", "o", "n", ";">>, <<"U+00E9">>>>,
     <<<<"z", "c", "y", ";">>, <<"U+00E9">>>>,
     <<<<"z", "d", "o", "t", ";">>, <<"U+00E9">>>>,
     <<<<"z", "e", "e", "t", "r", "f", ";">>, <<"U+03D2">>>>,
     <<<<"z", "e", "t", "a", ";">>, <<"U+00E9">>>>,
     <<<<"z", "f", "r", ";">>, <<"U+00E9">>>>,
     <<<<"z", "h", "c", "y", ";">>, <<"U+00E9">>>>,
     <<<<"z", "i", "g", "r", "a", "r", "r", ";">>, <<"U+">>>>,
     <<<<"z", "o", "p", "f", ";">>, <<"U+00E9">>>>,
     <<<<"z", "s", "c", "r", ";">>, <<"U+00E9">>>>,
     <<<<"z", "w", "j", ";">>, <<"U+">>>>,
     <<<<"z", "w", "n", "j", ";">>, <<"U+">>>> >>

\* Characters that end the name of a named character reference
CharrefStop == {"\t", "\n", "\f", " ", "<", "&", "#", ";"}

\* html.unescape's replace_charref for a named reference: the whole name,
\* else its longest prefix that is a legacy name, else the text unchanged
replace_named(name) ==
  With(Html5Table, LAMBDA html5 :
    IF HasKey(html5, name) THEN Lookup(html5, name)
    ELSE
      LET xs == {x \in 2..(Len(name) - 1) :
                   HasKey(html5, SubSeq(name, 1, x))}
      IN  IF xs = {} THEN <<"&">> \o name
          ELSE LET x == CHOOSE y \in xs : \A z \in xs : z <= y
               IN  Lookup(html5, SubSeq(name, 1, x))
                     \o SubSeq(name, x + 1, Len(name)))

\* sys.int_info.default_max_str_digits: the longest digit string that
\* int converts in a base that is not a power of two
int_max_str_digits == 4300

\* The number written by the digits; a value above 0x10FFFF is kept as
\* 0x110000
RECURSIVE int_value(_, _)
int_value(digits, base) ==
  IF digits = <<>> THEN 0
  ELSE LET n == int_value(SubSeq(digits, 1, Len(digits) - 1), base) * base
                  + digit_value(digits[Len(digits)])
       IN  IF n > 1114111 THEN 1114112 ELSE n

\* int(digits, base) for base 10 and base 16: a decimal string of more
\* than int_max_str_digits digits, leading zeros counted, is a ValueError;
\* a number of more than seven digits after its leading zeros is above
\* 0x10FFFF in both bases
int(digits, base) ==
  IF base = 10 /\ Len(digits) > int_max_str_digits THEN Raised("ValueError")
  ELSE With(SubSeq(digits, RunLen(digits, {"0"}, Len(digits)) + 1,
                   Len(digits)), LAMBDA significant :
         Returned(IF Len(significant) > 7 THEN 1114112
                  ELSE int_value(significant, base)))

\* html._invalid_charrefs: the numbers with a replacement of their own
invalid_charrefs ==
  << <<0, <<"U+">>>>, <<13, <<"\r">>>>, <<128, <<"U+">>>>, <<129, <<"U+">>>>,
     <<130, <<"U+">>>>, <<131, <<"U+00E9">>>>, <<132, <<"U+">>>>,
     <<133, <<"U+">>>>, <<134, <<"U+">>>>, <<135, <<"U+">>>>,
     <<136, <<"U+00E9">>>>, <<137, <<"U+">>>>, <<138, <<"U+00C9">>>>,
     <<139, <<"U+">>>>, <<140, <<"U+00C9">>>>, <<141, <<"U+">>>>,
     <<142, <<"U+00C9">>>>, <<143, <<"U+">>>>, <<144, <<"U+">>>>,
     <<145, <<"U+">>>>, <<146, <<"U+">>>>, <<147, <<"U+">>>>,
     <<148, <<"U+">>>>, <<149, <<"U+">>>>, <<150, <<"U+">>>>,
     <<151, <<"U+">>>>, <<152, <<"U+">>>>, <<153, <<"U+">>>>,
     <<154, <<"U+00E9">>>>, <<155, <<"U+">>>>, <<156, <<"U+00E9">>>>,
     <<157, <<"U+">>>>, <<158, <<"U+00E9">>>>, <<159, <<"U+00C9">>>> >>

\* html._invalid_codepoints
invalid_codepoints ==
  (1..8) \cup {11} \cup (14..31) \cup (127..159) \cup (64976..65007)
    \cup {p * 65536 + 65534 : p \in 0..16}
    \cup {p * 65536 + 65535 : p \in 0..16}

\* replace_charref for a numeric reference; s is the text between '&#'
\* and the optional ';'
replace_numeric(s) ==
  With(IF Head(s) \in {"x", "X"} THEN int(Tail(s), 16) ELSE int(s, 10),
       LAMBDA converted :
    IF converted.raised # "" THEN converted
    ELSE LET num == converted.value
         IN  Returned(
               IF HasKey(invalid_charrefs, num)
                 THEN Lookup(invalid_charrefs, num)
               ELSE IF num \in 55296..57343 \/ num > 1114111
                 THEN <<OtherChar>>
               ELSE IF num \in invalid_codepoints THEN <<>>
               ELSE <<chr(num)>>))

\* The text before the rest of a string and what the rest gives: an
\* exception raised in the rest is the outcome of the whole
Before(text, rest) ==
  IF rest.raised # "" THEN rest ELSE Returned(text \o rest.value)

\* html.unescape: &#digits;?, &#xhex;? and &name;? are replaced, left to
\* right, and the text up to the next '&' is kept; the replacement text is
\* not scanned again, and an exception of a replacement ends the call
RECURSIVE unescape(_)
unescape(s) ==
  IF s = <<>> THEN Returned(<<>>)
  ELSE IF Head(s) # "&"
    THEN With(RunLen(s, AllChars \ {"&"}, Len(s)), LAMBDA n :
           Before(SubSeq(s, 1, n), unescape(SubSeq(s, n + 1, Len(s)))))
  ELSE
    LET rest == Tail(s)
        nn   == Len(rest)
    IN  IF rest # <<>> /\ Head(rest) = "#"
          THEN LET nd   == RunLen(Tail(rest), DigitChars, nn)
                   nx   == IF nn >= 2 /\ rest[2] \in {"x", "X"}
                             THEN RunLen(SubSeq(rest, 3, nn), HexChars, nn)
                             ELSE 0
                   len  == IF nd > 0 THEN nd
                           ELSE IF nx > 0 THEN nx + 1 ELSE 0
                   semi == IF nn > 1 + len /\ rest[2 + len] = ";"
                             THEN 1 ELSE 0
               IN  IF len = 0 THEN Before(<<"&">>, unescape(rest))
                   ELSE With(replace_numeric(SubSeq(rest, 2, 1 + len)),
                             LAMBDA replacement :
                          IF replacement.raised # "" THEN replacement
                          ELSE Before(replacement.value,
                                      unescape(SubSeq(rest, 2 + len + semi,
                                                      nn))))
          ELSE LET run  == RunLen(rest, AllChars \ CharrefStop, 32)
                   semi == IF nn > run /\ rest[run + 1] = ";"
                             THEN 1 ELSE 0
                   name == SubSeq(rest, 1, run + semi)
               IN  IF run = 0 THEN Before(<<"&">>, unescape(rest))
                   ELSE Before(replace_named(name),
                               unescape(SubSeq(rest, run + semi + 1, nn)))

\* url_html_decoder with the two steps exchanged
url_html_decoder_unescape_first(raw_url) ==
  With(unescape(raw_url), LAMBDA unescaped :
    IF unescaped.raised # "" THEN unescaped
    ELSE Returned(unquote(unescaped.value)))

\* url_html_decoder: percent-decoding, then HTML-unescaping; the
\* ValueError of html.unescape is not caught
url_html_decoder(raw_url) == unescape(unquote(raw_url))

\* ------------------------------------------------------------------------
\* url_tokenizer.py: url_raw_splitter
\* ------------------------------------------------------------------------

\* [-a-zA-Z0-9@:%._\+~#=]
DomainClass == AlnumChars \cup {"-", "@", ":", "%", ".", "_", "+", "~", "#", "="}

\* [a-zA-Z0-9()]
EndingClass == AlnumChars \cup {"(", ")"}

\* [-a-zA-Z0-9()@:%_\+;.~#&//=]
PathClass ==
  AlnumChars \cup {"-", "(", ")", "@", ":", "%", "_", "+", ";", ".", "~",
                   "#", "&", "/", "="}

\* [-a-zA-Z0-9()@:%_\+;.~#&//=?]
ArgsClass == PathClass \cup {"?"}

\* \w of the regular expression
WordClass == AlnumChars \cup {"_"} \cup NonAscii("word")

EndingMaxLen == 12

StartsWith(s, prefix) ==
  Len(s) >= Len(prefix) /\ SubSeq(s, 1, Len(prefix)) = prefix

\* (https?):\/\/ : the protocol matched at the start of u, <<>> when none
match_protocol(u) ==
  IF StartsWith(u, <<"h", "t", "t", "p", "s", ":", "/", "/">>)
    THEN <<"h", "t", "t", "p", "s">>
  ELSE IF StartsWith(u, <<"h", "t", "t", "p", ":", "/", "/">>)
    THEN <<"h", "t", "t", "p">>
  ELSE <<>>

\* \b after position q of u (1-based, q >= 1)
word_boundary(u, q) ==
  (u[q] \in WordClass) # (q < Len(u) /\ u[q + 1] \in WordClass)

\* ([-a-zA-Z0-9@:%._\+~#=]+\.[a-zA-Z0-9()]{1,12})\b tried from position p:
\* the pairs (n, m) for which n class characters, a dot, m ending characters
\* and a word boundary match
domain_candidates(u, p) ==
  LET r == RunLen(SubSeq(u, p, Len(u)), DomainClass, Len(u))
  IN  {nm \in (1..r) \X (1..EndingMaxLen) :
         LET n == nm[1]
             m == nm[2]
         IN  /\ p + n + m <= Len(u)
             /\ u[p + n] = "."
             /\ \A i \in (p + n + 1)..(p + n + m) : u[i] \in EndingClass
             /\ word_boundary(u, p + n + m)}

\* the pair the backtracking search finds first: both quantifiers are
\* greedy, the outer one is the run before the dot
domain_match(u, p) ==
  LET c == domain_candidates(u, p)
  IN  CHOOSE nm \in c :
        \A o \in c : o[1] < nm[1] \/ (o[1] = nm[1] /\ o[2] <= nm[2])

\* url_regex.match(url.lower()) succeeds
url_matches(url) ==
  LET u     == lower(url)
      proto == match_protocol(u)
  IN  /\ proto # <<>>
      /\ domain_candidates(u, Len(proto) + 4) # {}

\* url_raw_splitter when the match succeeds: match.groups()
url_raw_splitter(url) ==
  With(lower(url), LAMBDA u :
  With(match_protocol(u), LAMBDA proto :
  With(Len(proto) + 4, LAMBDA p :
  With(domain_match(u, p), LAMBDA nm :
  With(p + nm[1] + nm[2], LAMBDA e :
  With(e + RunLen(SubSeq(u, e + 1, Len(u)), PathClass, Len(u)), LAMBDA a :
  With(IF a < Len(u) /\ u[a + 1] = "?" THEN 1 ELSE 0, LAMBDA q :
  With(RunLen(SubSeq(u, a + q + 1, Len(u)), ArgsClass, Len(u)), LAMBDA alen :
    <<proto,
      SubSeq(u, p, e),
      SubSeq(u, e + 1, a),
      SubSeq(u, a + q + 1, a + q + alen)>>))))))))

\* The assertion message without the url
url_raw_splitter_error_no_url(url) ==
  <<"E","r","r","o","r"," ","m","a","t","c","h","i","n","g"," ","u","r",
    "l">>

\* the message of the AssertionError that url_raw_splitter raises when the
\* match fails
url_raw_splitter_error(url) ==
  <<"E", "r", "r", "o", "r", " ", "m", "a", "t", "c", "h", "i", "n", "g",
    " ", "u", "r", "l", ":", " ">> \o url

\* ------------------------------------------------------------------------
\* url_tokenizer.py: the zone tokenizers
\* ------------------------------------------------------------------------

\* [f(x) for x in q]
word_splitter_each(q) == [i \in 1..Len(q) |-> word_splitter(q[i])]

\* url_domains_handler that word-splits the domain ending as well
url_domains_handler_split_ending(url_domains) ==
  LET splitted == SplitOn(url_domains, ".")
      k        == Len(splitted)
  IN  <<flatten(word_splitter_each(SubSeq(splitted, 1, k - 2))),
        word_splitter(splitted[k - 1]),
        word_splitter(splitted[k])>>

\* url_domains_handler that takes splitted[-3:-2] as the sub-domains
url_domains_handler_one_sub_domain(url_domains) ==
  LET splitted == SplitOn(url_domains, ".")
      k        == Len(splitted)
  IN  <<flatten(word_splitter_each(
                  SubSeq(splitted, IF k < 3 THEN 1 ELSE k - 2, k - 2))),
        word_splitter(splitted[k - 1]),
        splitted[k]>>

\* url_domains_handler that drops the empty labels before it picks the
\* zones
url_domains_handler_skip_empty(url_domains) ==
  LET splitted == SelectSeq(SplitOn(url_domains, "."), LAMBDA w : w # <<>>)
      k        == Len(splitted)
  IN  <<flatten(word_splitter_each(SubSeq(splitted, 1, k - 2))),
        IF k < 2 THEN <<>> ELSE word_splitter(splitted[k - 1]),
        splitted[k]>>

\* url_domains_handler
url_domains_handler(url_domains) ==
  LET splitted == SplitOn(url_domains, ".")
      k        == Len(splitted)
      sub_domains == flatten(word_splitter_each(SubSeq(splitted, 1, k - 2)))
      main_domain == word_splitter(splitted[k - 1])
      domain_ending == splitted[k]
  IN  <<sub_domains, main_domain, domain_ending>>

\* url_path_handler without the token appended for '@'
url_path_handler_no_at(url_path) ==
  flatten(word_splitter_each(
    SelectSeq(SplitOn(url_path, "/"), LAMBDA t : t # <<>>)))

\* url_path_handler that puts the token for '@' first
url_path_handler_at_first(url_path) ==
  LET segs      == SelectSeq(SplitOn(url_path, "/"), LAMBDA t : t # <<>>)
      token_lst == flatten(word_splitter_each(segs))
  IN  IF Contains(url_path, "@") THEN <<<<"@">>>> \o token_lst
      ELSE token_lst

\* url_path_handler
url_path_handler(url_path) ==
  LET segs      == SelectSeq(SplitOn(url_path, "/"), LAMBDA t : t # <<>>)
      token_lst == flatten(word_splitter_each(segs))
  IN  IF Contains(url_path, "@") THEN Append(token_lst, <<"@">>)
      ELSE token_lst

\* re.split(r'(?:&amp;)|;|&|\\', url_args)
RECURSIVE args_re_split(_, _)
args_re_split(s, field) ==
  IF s = <<>> THEN <<field>>
  ELSE IF StartsWith(s, <<"&", "a", "m", "p", ";">>)
    THEN <<field>> \o args_re_split(SubSeq(s, 6, Len(s)), <<>>)
  ELSE IF Head(s) \in {";", "&", "\\"}
    THEN <<field>> \o args_re_split(Tail(s), <<>>)
  ELSE args_re_split(Tail(s), Append(field, Head(s)))

\* the body of the loop with pair.split('=', 1): the value is all the text
\* after the first '='
args_pair_split_once(pair) ==
  LET fields == SplitOn(pair, "=")
      param  == fields[1]
      val    == IF Len(fields) = 1 THEN <<>> ELSE Join(Tail(fields), <<"=">>)
  IN  <<word_splitter(param), word_splitter(val)>>

\* the body of the loop of url_args_handler for one chunk
args_pair(pair) ==
  LET fields   == SplitOn(pair, "=")
      splitted == SubSeq(fields, 1, IF Len(fields) < 2 THEN Len(fields) ELSE 2)
      param    == splitted[1]
      val      == IF Len(splitted) = 1 THEN <<>> ELSE splitted[2]
  IN  <<word_splitter(param), word_splitter(val)>>

\* re.split(r';|&|\\', url_args): '&amp;' is not a delimiter of its own
RECURSIVE args_re_split_chars(_, _)
args_re_split_chars(s, field) ==
  IF s = <<>> THEN <<field>>
  ELSE IF Head(s) \in {";", "&", "\\"}
    THEN <<field>> \o args_re_split_chars(Tail(s), <<>>)
  ELSE args_re_split_chars(Tail(s), Append(field, Head(s)))

\* url_args_handler that splits '&amp;' at its '&' and at its ';'
url_args_handler_bare_amp(url_args) ==
  IF Len(url_args) = 0 THEN <<>>
  ELSE LET chunks == args_re_split_chars(url_args, <<>>)
       IN  [i \in 1..Len(chunks) |-> args_pair(chunks[i])]

\* url_args_handler
url_args_handler(url_args) ==
  IF Len(url_args) = 0 THEN <<>>
  ELSE LET chunks == args_re_split(url_args, <<>>)
       IN  [i \in 1..Len(chunks) |-> args_pair(chunks[i])]

\* url_tokenizer: the ValueError of url_html_decoder and the
\* AssertionError of url_raw_splitter are not caught
url_tokenizer(url) ==
  With(url_html_decoder(url), LAMBDA url_decoded :
    IF url_decoded.raised # "" THEN url_decoded
    ELSE IF ~url_matches(url_decoded.value)
      THEN RaisedWith("AssertionError",
                      url_raw_splitter_error(url_decoded.value))
    ELSE With(url_raw_splitter(url_decoded.value), LAMBDA raw :
           Returned(<<raw[1],
                      url_domains_handler(raw[2]),
                      url_path_handler(raw[3]),
                      url_args_handler(raw[4])>>)))

\* url_tokenizer raises when url_html_decoder raises and when
\* url_raw_splitter's assertion fails
url_tokenizer_raises(url) ==
  With(url_html_decoder(url), LAMBDA url_decoded :
    url_decoded.raised # "" \/ ~url_matches(url_decoded.value))

\* flatten_url_data
flatten_url_data(url_data) ==
  LET protocol == url_data[1]
      domains  == url_data[2]
  IN  <<protocol>> \o domains[1] \o domains[2] \o <<domains[3]>>
        \o url_data[3] \o flatten_twice(url_data[4])

\* ------------------------------------------------------------------------
\* url_tokenizer.py: the acronym expander
\* ------------------------------------------------------------------------

\* read_token_expansion_dataset(): AcronymsFile.csv as (token, phrase)
\* pairs; the file is not part of the sources, these are the rows that
\* the tests state
AcronymsFile ==
  << <<<<"c","s">>,
       <<"c","o","m","p","u","t","e","r"," ","s","c","i","e","n","c","e">>>>,
     <<<<"n","o","s">>,
       <<"n","e","t","w","o","r","k"," ","o","p","e","r","a","t","i","n",
         "g"," ","s","y","s","t","e","m">>>>,
     <<<<"n","l","p">>,
       <<"n","a","t","u","r","a","l"," ","l","a","n","g","u","a","g","e",
         " ","p","r","o","c","e","s","s","i","n","g">>>>,
     <<<<"w","w","w">>,
       <<"w","o","r","l","d"," ","w","i","d","e"," ","w","e","b">>>>,
     <<<<"s","l">>,
       <<"s","i","e","r","r","a"," ","l","e","o","n","e">>>>,
     <<<<"m","s","u">>,
       <<"m","i","c","h","i","g","a","n"," ","s","t","a","t","e"," ","u",
         "n","i","v","e","r","s","i","t","y">>>>,
     <<<<"y","s","i">>,
       <<"y","o","u","n","g"," ","s","c","o","t","s"," ","f","o","r"," ",
         "i","n","d","e","p","e","n","d","e","n","c","e">>>> >>

\* expand_token
expand_token(Acrony_dict, token) ==
  IF HasKey(Acrony_dict, lower(token))
    THEN Lookup(Acrony_dict, lower(token))
    ELSE lower(token)

\* [expand_token(Acrony_dict, token).split(' ') for token in tokens]
expand_each(Acrony_dict, tokens) ==
  [i \in 1..Len(tokens) |->
     SplitOn(expand_token(Acrony_dict, tokens[i]), " ")]

\* flat for a list whose elements are all lists
flat(a) == flatten(a)

\* The loop over args calls expand_token on param_tokens, a list, whose
\* .lower() is an AttributeError
expand_url_tokens_raises(url_tuple) == Len(url_tuple[4]) > 0

\* expand_url_tokens that keeps only the first word of each phrase
expand_url_tokens_first_word(Acrony_dict, url_tuple) ==
  LET first(tokens) ==
        [i \in 1..Len(tokens) |->
           SplitOn(expand_token(Acrony_dict, tokens[i]), " ")[1]]
  IN  <<url_tuple[1],
        <<first(url_tuple[2][1]), first(url_tuple[2][2]), url_tuple[2][3]>>,
        first(url_tuple[3]),
        url_tuple[4]>>

\* expand_url_tokens that also expands the domain ending, keeping the
\* first word of its phrase
expand_url_tokens_expands_ending(Acrony_dict, url_tuple) ==
  <<url_tuple[1],
    <<flat(expand_each(Acrony_dict, url_tuple[2][1])),
      flat(expand_each(Acrony_dict, url_tuple[2][2])),
      SplitOn(expand_token(Acrony_dict, url_tuple[2][3]), " ")[1]>>,
    flat(expand_each(Acrony_dict, url_tuple[3])),
    url_tuple[4]>>

\* expand_url_tokens when the loop over args has nothing to do: flat(args)
\* of the empty list is the empty list
expand_url_tokens(Acrony_dict, url_tuple) ==
  LET protocol      == url_tuple[1]
      domains       == url_tuple[2]
      path          == url_tuple[3]
      args          == url_tuple[4]
      sub_domain    == domains[1]
      main_domain   == domains[2]
      domain_ending == domains[3]
  IN  <<protocol,
        <<flat(expand_each(Acrony_dict, sub_domain)),
          flat(expand_each(Acrony_dict, main_domain)),
          domain_ending>>,
        flat(expand_each(Acrony_dict, path)),
        args>>

\* ------------------------------------------------------------------------
\* featurizer.py: constants and embedding sources
\* ------------------------------------------------------------------------

SUB_DOMAIN_DEFAULT_MAX_LEN == 5

MAIN_DOMAIN_DEFAULT_MAX_LEN == 5

PATH_DEFAULT_MAX_LEN == 10

ARG_DEFAULT_MAX_LEN == 10

\* The set literal of the source; 'ink' 'lk' is one string, "inklk"
UNTRUSTWORTHY_TLDS ==
  {
    <<"g", "a">>, <<"t", "k">>, <<"m", "l">>, <<"c", "f">>,
    <<"s", "u", "r", "f">>, <<"s", "u">>, <<"b", "a">>,
    <<"c", "y", "o", "u">>, <<"s", "u", "p", "p", "o", "r", "t">>,
    <<"b", "d">>, <<"t", "h">>, <<"c", "a", "s", "a">>, <<"p", "k">>,
    <<"t", "o", "p">>, <<"i", "d">>, <<"l", "i", "n", "k">>, <<"s", "a">>,
    <<"i", "n">>, <<"x", "y", "z">>, <<"p", "w">>,
    <<"m", "o", "n", "s", "t", "e", "r">>, <<"i", "n", "k", "l", "k">>,
    <<"w", "a", "n", "g">>, <<"c", "c">>, <<"v", "n">>, <<"n", "p">>,
    <<"e", "c">>, <<"t", "r">>, <<"s", "h", "o", "p">>, <<"g", "e">>,
    <<"p", "e">>, <<"k", "e">>, <<"x", "n", "-", "-", "p", "1", "a", "i">>,
    <<"b", "u", "z", "z">>, <<"n", "g">>, <<"i", "r">>, <<"m", "e">>,
    <<"m", "a">>, <<"d", "i", "g", "i", "t", "a", "l">>, <<"a", "t">>,
    <<"l", "i", "v", "e">>, <<"c", "l", "u", "b">>,
    <<"s", "e", "r", "v", "i", "c", "e", "s">>, <<"i", "c", "u">>,
    <<"c", "l">>, <<"i", "t">>, <<"p", "l">>, <<"c", "a", "m">>, <<"m", "y">>,
    <<"r", "u">>, <<"t", "o", "d", "a", "y">>, <<"a", "e">>, <<"s", "g">>
  }

GLOVE == "GloVe"

CONCEPTNET == "Conceptnet"

WORD2VEC == "Word2Vec"

FASTTEXT == "FastText"

SAMPLE == "sample"

\* The keys of WORD_EMBED_TO_GENSIM_FILE
WORD_EMBED_TO_GENSIM_FILE == {GLOVE, CONCEPTNET, WORD2VEC, FASTTEXT}

\* An embedding argument that is an instance of FastTextKeyedVectors
FastTextModel == "<FastTextKeyedVectors>"

\* word_embed/sample/sample.txt as (word, vector) rows.  Vector components
\* are held in units of 1/2, so that the mean of the rows is a whole number
SampleVectors ==
  << <<<<"t", "h", "e">>, <<-2, 2>>>>,
     <<<<"t", "e", "s", "t">>, <<-4, 4>>>>,
     <<<<"c", "o", "m">>, <<-6, 6>>>>,
     <<<<"a", "r", "g">>, <<-8, 8>>>>,
     <<<<"v", "a", "l">>, <<-10, 10>>>>,
     <<<<"w", "w", "w">>, <<-12, 12>>>>,
     <<<<"p", "a", "t", "h">>, <<-14, 14>>>>,
     <<<<"p", "a", "g", "e">>, <<-16, 16>>>> >>

\* api.load('conceptnet-numberbatch-17-06-300'), an excerpt with fewer
\* dimensions: English entries are keyed with the prefix /c/en/
ConceptnetVectors ==
  << <<<<"/", "c", "/", "e", "n", "/", "t", "h", "e">>, <<1, 0, 2>>>>,
     <<<<"/", "c", "/", "e", "n", "/", "t", "e", "s", "t">>, <<2, 3, 0>>>>,
     <<<<"/", "c", "/", "e", "n", "/", "c", "o", "m">>, <<0, 5, 1>>>>,
     <<<<"c", "o", "m">>, <<7, 7, 7>>>>,
     <<<<"/", "c", "/", "e", "n", "/", "g", "e", "o">>, <<5, 0, 5>>>> >>

\* api.load of the other gensim files, an excerpt with fewer dimensions
GensimVectors ==
  << <<<<"t", "h", "e">>, <<1, 1, 1>>>>,
     <<<<"t", "e", "s", "t">>, <<2, 0, 4>>>>,
     <<<<"c", "o", "m">>, <<3, 5, 1>>>>,
     <<<<"p", "a", "t", "h">>, <<6, 2, 2>>>> >>

\* The vocabulary of a FastTextKeyedVectors model, an excerpt
FastTextVectors ==
  << <<<<"t", "h", "e">>, <<1, 3>>>>,
     <<<<"t", "e", "s", "t">>, <<2, 5>>>>,
     <<<<"c", "o", "m">>, <<4, 1>>>> >>

\* The vector a FastText model composes from character n-grams for a key
\* outside its vocabulary
FastTextOov == <<1, 1>>

EMBED_PREFIX_CONCEPTNET == <<"/", "c", "/", "e", "n", "/">>

THE == <<"t", "h", "e">>

SAMPLE_URL == <<"h", "t", "t", "p", ":", "/", "/", "t", "e", "s", "t", ".", "c", "o", "m">>

\* ------------------------------------------------------------------------
\* featurizer.py: UrlFeaturizer, the methods as functions of the object
\* ------------------------------------------------------------------------

\* __calc_n__
calc_n(self) ==
  self.sub_domain_max_len + self.main_domain_max_len + 1
    + self.path_max_len + self.arg_max_len

\* p_word in self.embeddings_index; a FastText model holds every key
index_contains(self, p_word) ==
  self.is_fasttext \/ HasKey(self.embeddings_index, p_word)

\* self.embeddings_index[p_word]
index_get(self, p_word) ==
  IF HasKey(self.embeddings_index, p_word)
    THEN Lookup(self.embeddings_index, p_word)
    ELSE FastTextOov

\* __get_embed__ looking the bare token up, without embed_prefix
get_embed_no_prefix(self, token) ==
  IF index_contains(self, token) THEN index_get(self, token)
  ELSE self.avg_vec

\* __get_embed__
get_embed(self, token) ==
  LET p_word == self.embed_prefix \o token
  IN  IF index_contains(self, p_word) THEN index_get(self, p_word)
      ELSE self.avg_vec

\* np.zeros(n)
zeros(n) == [i \in 1..n |-> 0]

\* np.zeros((rows, cols)); a negative dimension raises ValueError
zeros2(rows, cols) == [i \in 1..rows |-> zeros(cols)]

\* __word_embed__
word_embed(self, tokens, mat_len) ==
  LET taken == Slice(tokens, 0, mat_len)
  IN  [i \in 1..mat_len |->
         IF i <= Len(taken) THEN get_embed(self, taken[i])
         ELSE zeros(self.embedding_dim)]

\* __create_positional_word_matrix__ with the path and argument blocks in
\* the opposite order
create_positional_args_first(self, url_data) ==
  LET domains == url_data[2]
  IN  word_embed(self, domains[1], self.sub_domain_max_len)
        \o word_embed(self, domains[2], self.main_domain_max_len)
        \o word_embed(self, <<domains[3]>>, 1)
        \o word_embed(self, flatten_twice(url_data[4]), self.arg_max_len)
        \o word_embed(self, url_data[3], self.path_max_len)

\* __create_positional_word_matrix__
create_positional_word_matrix(self, url_data) ==
  LET domains         == url_data[2]
      path            == url_data[3]
      args            == url_data[4]
      sub_domains     == domains[1]
      main_domain     == domains[2]
      domain_ending   == domains[3]
      args_flat       == flatten_twice(args)
      sub_domain_mat  == word_embed(self, sub_domains, self.sub_domain_max_len)
      main_domain_mat == word_embed(self, main_domain, self.main_domain_max_len)
      domain_end_vec  == word_embed(self, <<domain_ending>>, 1)
      path_mat        == word_embed(self, path, self.path_max_len)
      args_mat        == word_embed(self, args_flat, self.arg_max_len)
  IN  sub_domain_mat \o main_domain_mat \o domain_end_vec \o path_mat
        \o args_mat

\* __create_sequential_word_matrix__ that cuts every zone to its own capacity
\* before it concatenates
create_sequential_per_zone(self, url_data) ==
  LET domains == url_data[2]
      full    == Slice(domains[1], 0, self.sub_domain_max_len)
                   \o Slice(domains[2], 0, self.main_domain_max_len)
                   \o <<domains[3]>>
                   \o Slice(url_data[3], 0, self.path_max_len)
                   \o Slice(flatten_twice(url_data[4]), 0, self.arg_max_len)
  IN  word_embed(self, full, self.N)

\* __create_sequential_word_matrix__
create_sequential_word_matrix(self, url_data) ==
  LET domains   == url_data[2]
      args_flat == flatten_twice(url_data[4])
      full      == domains[1] \o domains[2] \o <<domains[3]>> \o url_data[3]
                     \o args_flat
  IN  word_embed(self, full, self.N)

\* self.__create_word_matrix__, bound in __init__ to one of the two builders
create_word_matrix(self, url_data) ==
  IF self.is_sequential THEN create_sequential_word_matrix(self, url_data)
  ELSE create_positional_word_matrix(self, url_data)

\* re.match(r'(\d+\.){3}\d+', s): s starts with four runs of digits
\* separated by dots; groups counts the runs already matched
RECURSIVE match_ip(_, _)
match_ip(s, groups) ==
  LET nd == RunLen(s, DecimalClass, Len(s))
  IN  /\ nd >= 1
      /\ \/ groups = 3
         \/ /\ Len(s) > nd
            /\ s[nd + 1] = "."
            /\ match_ip(SubSeq(s, nd + 2, Len(s)), groups + 1)

\* re.match(r'www.+', s)
match_www_weird(s) ==
  /\ StartsWith(s, <<"w", "w", "w">>)
  /\ Len(s) >= 4
  /\ s[4] # "\n"

\* int(bool)
BoolInt(b) == IF b THEN 1 ELSE 0

\* len([char for char in chars if char in cls])
RECURSIVE CountIn(_, _)
CountIn(chars, cls) ==
  IF chars = <<>> THEN 0
  ELSE BoolInt(Head(chars) \in cls) + CountIn(Tail(chars), cls)

\* __create_hand_picked_features__
create_hand_picked_features(url, url_data) ==
  With(url_html_decoder(url), LAMBDA decoded :
  IF decoded.raised # "" THEN decoded
  ELSE IF ~url_matches(decoded.value)
    THEN RaisedWith("AssertionError", url_raw_splitter_error(decoded.value))
  ELSE
  With(decoded.value, LAMBDA url_decoded :
  With(url_raw_splitter(url_decoded), LAMBDA raw :
  LET words         == flatten_url_data(url_data)
      domains_raw   == raw[2]
      path_raw      == raw[3]
      args_raw      == raw[4]
      domain_len    == Len(domains_raw)
      path_len      == Len(path_raw)
      args_len      == Len(args_raw)
      dot_count_in_path_and_args ==
        CountChar(path_raw, ".") + CountChar(args_raw, ".")
      capital_count == CountIn(url_decoded, isupper)
      domain_is_ip_address == BoolInt(match_ip(domains_raw, 0))
      contain_suspicious_symbol ==
        BoolInt(Contains(args_raw, "\\") \/ Contains(args_raw, ":"))
      protocol      == url_data[1]
      domains       == url_data[2]
      path          == url_data[3]
      args          == url_data[4]
      sub_domains   == domains[1]
      main_domain   == domains[2]
      domain_ending == domains[3]
      contains_at_symbol ==
        BoolInt(Len(path) > 0 /\ path[Len(path)] = <<"@">>)
      is_https      == BoolInt(protocol = <<"h", "t", "t", "p", "s">>)
      num_main_domain_words == Len(main_domain)
      num_sub_domains == Len(sub_domains)
      is_www        == BoolInt(num_sub_domains > 0
                           /\ sub_domains[1] = <<"w", "w", "w">>)
      is_www_weird  == BoolInt(num_sub_domains > 0
                           /\ match_www_weird(sub_domains[1]))
      num_path_words == Len(path) - contains_at_symbol
      domain_end_verdict == BoolInt(domain_ending \in UNTRUSTWORTHY_TLDS)
      sub_domains_num_digits == CountIn(flatten(sub_domains), isdigit)
      path_num_digits == CountIn(flatten(path), isdigit)
      args_num_digits ==
        CountIn(flatten(flatten_twice(args)), isdigit)
      total_num_digits ==
        sub_domains_num_digits + path_num_digits + args_num_digits
      word_court_in_url == Len(words) - contains_at_symbol
  IN  Returned(
        <<is_https, num_main_domain_words, num_sub_domains,
          is_www, is_www_weird, num_path_words, domain_end_verdict,
          sub_domains_num_digits, path_num_digits, args_num_digits,
          total_num_digits, contains_at_symbol, word_court_in_url,
          domain_len, path_len, args_len,
          dot_count_in_path_and_args, capital_count,
          domain_is_ip_address, contain_suspicious_symbol>>))))

\* __hand_picked_feat_len__
hand_picked_feat_len_of_sample ==
  Len(create_hand_picked_features(SAMPLE_URL,
                                  url_tokenizer(SAMPLE_URL).value).value)

\* The parameters in the signature of url_tokenizer
url_tokenizer_params == {"url"}

\* The keyword arguments of the call of url_tokenizer in __featurize__
featurize_kwargs == {"expand_tokens"}

\* The exception raised inside the try block of __featurize__, "" when
\* none: a keyword argument outside the signature of the callee is a
\* TypeError; else the exception of url_tokenizer, which is the one
\* __create_hand_picked_features__ would raise for the same url
featurize_exception(self, url) ==
  IF ~(featurize_kwargs \subseteq url_tokenizer_params) THEN "TypeError"
  ELSE url_tokenizer(url).raised

\* The placeholder with the dimensions of the matrix exchanged
placeholder_transposed(self) ==
  <<zeros(self.hand_picked_feat_len), zeros2(self.embedding_dim, self.N)>>

\* The placeholder with a feature vector as long as an embedding vector
placeholder_short_features(self) ==
  <<zeros(self.embedding_dim), zeros2(self.N, self.embedding_dim)>>

\* The pair built by the except branch of __featurize__
placeholder(self) ==
  <<zeros(self.hand_picked_feat_len), zeros2(self.N, self.embedding_dim)>>

\* __featurize__
featurize_one(self, url) ==
  IF featurize_exception(self, url) = ""
    THEN LET url_data == url_tokenizer(url).value
         IN  <<create_hand_picked_features(url, url_data).value,
               create_word_matrix(self, url_data)>>
    ELSE placeholder(self)

\* featurize for a list that leaves out the urls the splitter rejects
featurize_list_drop_failed(self, urls) ==
  LET kept == SelectSeq(urls, LAMBDA u : ~url_tokenizer_raises(u))
  IN  [i \in 1..Len(kept) |-> featurize_one(self, kept[i])]

\* featurize for a list of urls
featurize_list(self, urls) ==
  [i \in 1..Len(urls) |-> featurize_one(self, urls[i])]

\* ------------------------------------------------------------------------
\* featurizer.py: construction
\* ------------------------------------------------------------------------

\* The fields of the object before __init__ has returned one
NoFeaturizer ==
  [constructed |-> FALSE, is_sequential |-> FALSE, expand_tokens |-> FALSE,
   embed_prefix |-> <<>>, sub_domain_max_len |-> 0,
   main_domain_max_len |-> 0, path_max_len |-> 0, arg_max_len |-> 0,
   N |-> 0, is_fasttext |-> FALSE, embeddings_index |-> <<>>,
   embedding_dim |-> 0, avg_vec |-> <<>>, hand_picked_feat_len |-> 0]

\* isinstance(embedding, FastTextKeyedVectors)
is_fasttext_model(embedding) == embedding = FastTextModel

\* __read_embeddings__ that falls back to the sample file for an unknown
\* choice
read_embeddings_never_raises(embedding) == FALSE

\* The else branch of __read_embeddings__: raise ValueError
read_embeddings_raises(embedding) ==
  /\ ~is_fasttext_model(embedding)
  /\ embedding \notin WORD_EMBED_TO_GENSIM_FILE
  /\ embedding # SAMPLE

\* __read_embeddings__ with __read_gensim_embeddings__ and
\* __read_sample_embeddings__: the index that is loaded
read_embeddings(embedding) ==
  IF is_fasttext_model(embedding) THEN FastTextVectors
  ELSE IF embedding \in WORD_EMBED_TO_GENSIM_FILE
    THEN (IF embedding = CONCEPTNET THEN ConceptnetVectors
          ELSE GensimVectors)
  ELSE SampleVectors

\* __read_gensim_embeddings__ sets the prefix for Conceptnet
read_embed_prefix(embedding) ==
  IF ~is_fasttext_model(embedding) /\ embedding = CONCEPTNET
    THEN EMBED_PREFIX_CONCEPTNET
    ELSE <<>>

\* Sum of component j over the rows of a matrix
RECURSIVE ColumnSum(_, _)
ColumnSum(rows, j) ==
  IF rows = <<>> THEN 0 ELSE Head(rows)[j] + ColumnSum(Tail(rows), j)

\* np.mean(np.array(word_matrix), axis=0)
mean_rows(rows) ==
  [j \in 1..Len(rows[1]) |-> ColumnSum(rows, j) \div Len(rows)]

\* __create_avg_vec__
create_avg_vec(self) ==
  IF self.is_fasttext THEN zeros(self.embedding_dim)
  ELSE mean_rows([i \in 1..Len(self.embeddings_index) |->
                    self.embeddings_index[i][2]])

\* __init__: the object it returns when __read_embeddings__ does not raise
init(embedding, expand_tokens, sub_domain_max_len, main_domain_max_len, path_max_len, arg_max_len, is_sequential) ==
  LET s1 == [NoFeaturizer EXCEPT
               !.is_sequential = is_sequential,
               !.expand_tokens = expand_tokens,
               !.embed_prefix = <<>>,
               !.sub_domain_max_len = sub_domain_max_len,
               !.main_domain_max_len = main_domain_max_len,
               !.path_max_len = path_max_len,
               !.arg_max_len = arg_max_len]
      s2 == [s1 EXCEPT !.N = calc_n(s1)]
      s3 == [s2 EXCEPT !.is_fasttext = is_fasttext_model(embedding)]
      s4 == [s3 EXCEPT !.embeddings_index = read_embeddings(embedding),
                       !.embed_prefix = read_embed_prefix(embedding)]
      s5 == [s4 EXCEPT !.embedding_dim = Len(get_embed(s4, THE))]
      s6 == [s5 EXCEPT !.avg_vec = create_avg_vec(s5)]
      s7 == [s6 EXCEPT !.hand_picked_feat_len =
                         hand_picked_feat_len_of_sample]
  IN  [s7 EXCEPT !.constructed = TRUE]

\* An optional argument: <<>> is None, <<v>> is the value v
None == <<>>

\* `if x:` for an optional integer argument
Truthy(x) == x # None /\ x[1] # 0

\* set_hyperparams without the final recomputation of N
set_hyperparams_stale_n(self, sub_domain_max_len, main_domain_max_len, path_max_len, arg_max_len) ==
  [self EXCEPT
     !.sub_domain_max_len = IF Truthy(sub_domain_max_len)
                              THEN sub_domain_max_len[1] ELSE @,
     !.main_domain_max_len = IF Truthy(main_domain_max_len)
                               THEN main_domain_max_len[1] ELSE @,
     !.path_max_len = IF Truthy(path_max_len) THEN path_max_len[1] ELSE @,
     !.arg_max_len = IF Truthy(arg_max_len) THEN arg_max_len[1] ELSE @]

\* set_hyperparams that resets a capacity that is not provided to the
\* default of __init__
set_hyperparams_defaults(self, sub_domain_max_len, main_domain_max_len, path_max_len, arg_max_len) ==
  LET s1 == [self EXCEPT
               !.sub_domain_max_len =
                  IF Truthy(sub_domain_max_len) THEN sub_domain_max_len[1]
                  ELSE SUB_DOMAIN_DEFAULT_MAX_LEN,
               !.main_domain_max_len =
                  IF Truthy(main_domain_max_len) THEN main_domain_max_len[1]
                  ELSE MAIN_DOMAIN_DEFAULT_MAX_LEN,
               !.path_max_len =
                  IF Truthy(path_max_len) THEN path_max_len[1]
                  ELSE PATH_DEFAULT_MAX_LEN,
               !.arg_max_len =
                  IF Truthy(arg_max_len) THEN arg_max_len[1]
                  ELSE ARG_DEFAULT_MAX_LEN]
  IN  [s1 EXCEPT !.N = calc_n(s1)]

\* set_hyperparams: the object after the call
set_hyperparams(self, sub_domain_max_len, main_domain_max_len, path_max_len, arg_max_len) ==
  LET s1 == IF Truthy(sub_domain_max_len)
              THEN [self EXCEPT !.sub_domain_max_len = sub_domain_max_len[1]]
              ELSE self
      s2 == IF Truthy(main_domain_max_len)
              THEN [s1 EXCEPT !.main_domain_max_len = main_domain_max_len[1]]
              ELSE s1
      s3 == IF Truthy(path_max_len)
              THEN [s2 EXCEPT !.path_max_len = path_max_len[1]]
              ELSE s2
      s4 == IF Truthy(arg_max_len)
              THEN [s3 EXCEPT !.arg_max_len = arg_max_len[1]]
              ELSE s3
  IN  [s4 EXCEPT !.N = calc_n(s4)]

\* ------------------------------------------------------------------------
\* Inputs of the model
\* ------------------------------------------------------------------------

URL_TEST ==
  <<"h","t","t","p",":","/","/","t","e","s","t",".","c","o","m">>

URL_UNK ==
  <<"h","t","t","p",":","/","/","u","n","k",".","t","e","s","t",".","c","o",
   "m","?","a","r","g","=","v","a","l">>

URL_LONG ==
  <<"h","t","t","p",":","/","/","w","w","w",".","a",".","g","e","o","c","i",
   "t","i","e","s",".","c","o","m","/","p","a","t","h","/","p","a","g","e",
   ".","h","t","m","l","?","a","r","g","=","v","a","l","&","t","h","e","=",
   "c","o","m">>

URL_HYPHEN ==
  <<"h","t","t","p","s",":","/","/","t","e","s","t","-","a","-","d","o","m",
   "a","i","n",".","x","y","z">>

URL_AT ==
  <<"h","t","t","p",":","/","/","w","w","w",".","t","e","s","t",".","n","e",
   "t","/","@","t","h","e">>

URL_NO_PROTOCOL ==
  <<"w","w","w",".","t","e","s","t",".","c","o","m">>

URL_FTP ==
  <<"f","t","p",":","/","/","t","e","s","t",".","c","o","m","/","p","a","t",
   "h">>

\* Largest zone capacity passed to __init__ and set_hyperparams
MaxCap == 2

\* Longest list of urls passed to featurize
MaxBatch == 2

CapValues == {1, MaxCap}

HyperValues == {None, <<0>>} \cup {<<c>> : c \in CapValues}

EmbeddingChoices ==
  {SAMPLE, CONCEPTNET, GLOVE, FastTextModel, "undefined-embed"}

Urls == {URL_TEST, URL_LONG, URL_NO_PROTOCOL}

BuilderUrls == {URL_TEST, URL_UNK, URL_LONG, URL_HYPHEN, URL_AT}

UrlLists == UNION {[1..n -> Urls] : n \in 0..MaxBatch}

\* ------------------------------------------------------------------------
\* State: one UrlFeaturizer object, the last call made on it and what the
\* call returned or raised
\* ------------------------------------------------------------------------

VARIABLES feat, call, ret

vars == <<feat, call, ret>>

Init ==
  /\ feat = NoFeaturizer
  /\ call = [op |-> "none", args |-> <<>>]
  /\ ret = Returned(<<>>)

\* UrlFeaturizer(embedding, expand_tokens, ..., is_sequential)
Construct(embedding, expand_tokens, S, M, P, A, is_sequential) ==
  /\ ~feat.constructed
  /\ call' = [op |-> "__init__",
              args |-> <<embedding, expand_tokens, S, M, P, A,
                         is_sequential>>]
  /\ IF read_embeddings_raises(embedding)
       THEN /\ feat' = feat
            /\ ret' = Raised("ValueError")
       ELSE /\ feat' = init(embedding, expand_tokens, S, M, P, A,
                            is_sequential)
            /\ ret' = Returned(<<>>)

\* feat.set_hyperparams(S, M, P, A)
SetHyperparams(S, M, P, A) ==
  /\ feat.constructed
  /\ call' = [op |-> "set_hyperparams", args |-> <<S, M, P, A>>]
  /\ feat' = set_hyperparams(feat, S, M, P, A)
  /\ ret' = Returned(<<>>)

\* feat.featurize(url) that sets the four capacities to 1 before it
\* featurizes
Featurize_resets_hyperparams(url) ==
  /\ feat.constructed
  /\ call' = [op |-> "featurize", args |-> url]
  /\ feat' = set_hyperparams(feat, <<1>>, <<1>>, <<1>>, <<1>>)
  /\ ret' = Returned(featurize_one(feat', url))

\* feat.featurize(url) for a str
Featurize(url) ==
  /\ feat.constructed
  /\ call' = [op |-> "featurize", args |-> url]
  /\ ret' = Returned(featurize_one(feat, url))
  /\ UNCHANGED feat

\* feat.featurize(urls) for a list of str
FeaturizeList(urls) ==
  /\ feat.constructed
  /\ call' = [op |-> "featurize_list", args |-> urls]
  /\ ret' = Returned(featurize_list(feat, urls))
  /\ UNCHANGED feat

Next ==
  \/ \E embedding \in EmbeddingChoices, expand_tokens \in BOOLEAN,
        S \in CapValues, M \in CapValues, P \in CapValues, A \in CapValues,
        is_sequential \in BOOLEAN :
       Construct(embedding, expand_tokens, S, M, P, A, is_sequential)
  \/ \E S \in HyperValues, M \in HyperValues, P \in HyperValues,
        A \in HyperValues :
       SetHyperparams(S, M, P, A)
  \/ \E url \in Urls : Featurize(url)
  \/ \E urls \in UrlLists : FeaturizeList(urls)

Spec == Init /\ [][Next]_vars

\* ------------------------------------------------------------------------
\* The embedding-matrix builder applied to tokenized urls
\* ------------------------------------------------------------------------

ValidEmbeddingChoices == {SAMPLE, CONCEPTNET, GLOVE, FastTextModel}

BuilderUrlData == {url_tokenizer(url).value : url \in BuilderUrls}

\* Any featurizer that __init__ returns
BuilderInit ==
  /\ feat \in {init(embedding, expand_tokens, S, M, P, A, is_sequential) :
                 embedding \in ValidEmbeddingChoices,
                 expand_tokens \in BOOLEAN,
                 S \in CapValues, M \in CapValues, P \in CapValues,
                 A \in CapValues, is_sequential \in BOOLEAN}
  /\ call = [op |-> "none", args |-> <<>>]
  /\ ret = Returned(<<>>)

\* feat.__create_word_matrix__(url_data)
CreateWordMatrix(url_data) ==
  /\ feat.constructed
  /\ call' = [op |-> "__create_word_matrix__", args |-> url_data]
  /\ ret' = Returned(create_word_matrix(feat, url_data))
  /\ UNCHANGED feat

BuilderNext == \E url_data \in BuilderUrlData : CreateWordMatrix(url_data)

BuilderSpec == BuilderInit /\ [][BuilderNext]_vars

\* ------------------------------------------------------------------------
\* The functions of url_tokenizer.py and util.py called on their own
\* ------------------------------------------------------------------------

\* The parts from which the urls passed to url_raw_splitter are assembled
UrlProtocols ==
  {<<"h","t","t","p",":","/","/">>,
   <<"h","t","t","p","s",":","/","/">>,
   <<"H","T","T","P",":","/","/">>,
   <<"f","t","p",":","/","/">>,
   <<>>}

UrlDomains ==
  {<<"t","e","s","t",".","c","o","m">>,
   <<"w","w","w",".","t","e","s","t",".","c","o","m">>,
   <<"t","e","s","t">>,
   <<"a",".","g","e","o","c","i","t","i","e","s",".","c","o","m">>}

UrlPaths ==
  {<<>>,
   <<"/">>,
   <<"/","p","a","t","h","/","p","a","g","e",".","h","t","m","l">>,
   <<"/","@","t","h","e">>}

UrlQueries ==
  {<<>>,
   <<"?","a","r","g","=","v","a","l">>,
   <<"?","a","r","g","=","v","a","l","&","t","h","e","=","c","o","m">>,
   <<"?","B","E","T","\\","p","a","g","e",".","h","t","m","l">>}

\* Text that follows the url in the string
UrlTrailers ==
  {<<>>, <<" ","p","a","g","e">>, <<"<","a",">">>, <<"U+00E9">>}

RawUrls ==
  {p \o d \o pa \o q \o t :
     p \in UrlProtocols, d \in UrlDomains, pa \in UrlPaths,
     q \in UrlQueries, t \in UrlTrailers}

\* The call has been made and has not returned yet
Pending == [raised |-> "pending", value |-> <<>>]

\* url_raw_splitter(call.args)
UrlRawSplitter ==
  /\ call.op = "url_raw_splitter"
  /\ ret = Pending
  /\ ret' = IF url_matches(call.args)
              THEN Returned(url_raw_splitter(call.args))
            ELSE RaisedWith("AssertionError",
                            url_raw_splitter_error(call.args))
  /\ UNCHANGED <<feat, call>>

\* Most labels in a domain string passed to url_domains_handler
MaxLabels == 4

\* The labels of the domain strings: labels of the examples and tests of
\* url_domains_handler, two of them split in two words
DomainLabels ==
  {<<"w","w","w">>, <<"m","e","m","b","e","r","s">>,
   <<"t","r","i","p","o","d">>, <<"n","e","t">>,
   <<"g","e","o","c","i","t","i","e","s">>, <<"c","o","m">>,
   <<"p","a","r","t","8">>}

LabelSeqs == UNION {[1..k -> DomainLabels] : k \in 1..MaxLabels}

DomainStrings == {Join(labels, <<".">>) : labels \in LabelSeqs}

\* url_domains_handler(call.args); splitted[-2] of a one-element list is an
\* IndexError
UrlDomainsHandler ==
  /\ call.op = "url_domains_handler"
  /\ ret = Pending
  /\ ret' = IF Len(SplitOn(call.args, ".")) < 2 THEN Raised("IndexError")
            ELSE Returned(url_domains_handler(call.args))
  /\ UNCHANGED <<feat, call>>

\* Most '/'-separated segments in a path string passed to url_path_handler
MaxSegments == 3

\* The segments of the path strings
PathSegments ==
  {<<>>, <<"p","a","t","h">>, <<"p","a","g","e",".","h","t","m","l">>,
   <<"@","t","h","e">>, <<"a","@","t","e","s","t">>,
   <<"m","e","d","i","u","m","l","e","n","g","t","h","p","a","t","h">>,
   <<"m","b","r","a","u","n","@","a","m","e","r","i","t","e","c","h",".","n","e","t">>}

SegmentSeqs == UNION {[1..k -> PathSegments] : k \in 0..MaxSegments}

PathStrings == {Join(segs, <<"/">>) : segs \in SegmentSeqs}

\* url_path_handler(call.args)
UrlPathHandler ==
  /\ call.op = "url_path_handler"
  /\ ret = Pending
  /\ ret' = Returned(url_path_handler(call.args))
  /\ UNCHANGED <<feat, call>>

\* Most chunks in an argument string passed to url_args_handler
MaxChunks == 2

\* The chunks of the argument strings, each as its '='-separated fields
ArgChunkFields ==
  {<< <<"s","i","d">>, <<"4">> >>,
   << <<"l","i","s","t">> >>,
   << <<>> >>,
   << <<"t","h","e">>, <<"g","e","o","c","i","t","i","e","s">> >>,
   << <<"a","r","g">>, <<"v","a","l">>, <<"p","a","g","e">> >>,
   << <<"a","m","u","l","t","i","w","o","r","d","p","a","r","a","m">>,
      <<"m","u","l","t","i","w","o","r","d","v","a","l","u","e">> >>}

\* The delimiters between the chunks
ArgDelimiters == {<<"&","a","m","p",";">>, <<";">>, <<"&">>, <<"\\">>}

\* A sequence of chunks with the delimiter after each one but the last
ArgChunkSeqs ==
  UNION {[chunks : [1..k -> ArgChunkFields],
          delims : [1..(k - 1) -> ArgDelimiters]] : k \in 1..MaxChunks}

\* The text of such a sequence from chunk i on
RECURSIVE arg_text(_, _)
arg_text(cs, i) ==
  Join(cs.chunks[i], <<"=">>) \o
    (IF i = Len(cs.chunks) THEN <<>>
     ELSE cs.delims[i] \o arg_text(cs, i + 1))

\* The argument strings with the chunks they are built from
ArgInputs == {<<arg_text(cs, 1), cs.chunks>> : cs \in ArgChunkSeqs}

ArgStrings == {input[1] : input \in ArgInputs}

\* url_args_handler(call.args)
UrlArgsHandler ==
  /\ call.op = "url_args_handler"
  /\ ret = Pending
  /\ ret' = Returned(url_args_handler(call.args))
  /\ UNCHANGED <<feat, call>>

\* Most tokens in the sub-domain zone and in the path zone of a UrlData
\* passed to expand_url_tokens
MaxZoneTokens == 2

\* The tokens of those zones: www and cs are keys of the acronym table
ZoneTokens == {<<"w","w","w">>, <<"c","s">>, <<"t","e","s","t">>}

ZoneTokenSeqs == UNION {[1..k -> ZoneTokens] : k \in 0..MaxZoneTokens}

\* The UrlData tuples passed to expand_url_tokens
UrlTuples ==
  {<<protocol, <<sub_domain, main_domain, domain_ending>>, path, args>> :
     protocol \in {<<"h","t","t","p">>, <<"w","w","w">>},
     sub_domain \in ZoneTokenSeqs,
     main_domain \in {<<<<"t","e","s","t">>>>,
                      <<<<"a">>, <<"n","o","s">>, <<"l","i","n","e">>>>},
     domain_ending \in {<<"o","r","g">>, <<"s","l">>},
     path \in ZoneTokenSeqs,
     args \in {<<>>,
               << << <<<<"n","l","p">>, <<"w","o","r","d">>>>,
                     <<<<"e","d">>>> >> >>}}

\* expand_url_tokens(Acrony_dict, call.args)
ExpandUrlTokens ==
  /\ call.op = "expand_url_tokens"
  /\ ret = Pending
  /\ ret' = IF expand_url_tokens_raises(call.args)
              THEN Raised("AttributeError")
            ELSE Returned(expand_url_tokens(AcronymsFile, call.args))
  /\ UNCHANGED <<feat, call>>

\* Most pieces in an encoded string passed to url_html_decoder
MaxPieces == 2

\* The pieces of the encoded strings
EncodedPieces ==
  {<<"%","2","0">>, <<"%","2","7">>, <<"&","a","m","p",";">>,
   <<"&","a","m","p">>, <<"%","2","6","a","m","p",";">>, <<"%","2","6">>,
   <<"&","l","t",";">>, <<"x">>, <<"%","C","3">>, <<"%","A","9">>,
   <<"%","7","3">>, <<"&","c","o","p","y">>, <<"&","n","o","t","i","t",";">>,
   <<"&","#","6","5",";">>, <<"&","#","1",";">>, <<"%","8","9">>,
   <<"%","E","2","%","8","4","%","A","A">>}

URL_WEBRING ==
  <<"h","t","t","p",":","/","/","e",".","w","e","b","r","i","n","g",".",
    "c","o","m","/","h","u","b","?","s","i","d","=","&","a","m","p",";","r",
    "i","n","g","=","h","e","n","t","f","f","9","8","&","a","m","p",";","i",
    "d","=","&","a","m","p">>

URL_ASSTR ==
  <<"h","t","t","p",":","/","/","w","w","w",".","a","s","s","t","r",".",
    "o","r","g","/","j","a","n","i","c","e","%","2","0","a","n","d","%","2",
    "0","k","i","r","k","%","2","7","s">>

\* n times the character c
Repeat(c, n) == [i \in 1..n |-> c]

\* Decimal character references with one digit more than int converts,
\* in a text and with leading zeros
REFERENCE_OVER_LIMIT ==
  <<"a","&","#">> \o Repeat("1", int_max_str_digits + 1) \o <<";","b">>

ZEROS_OVER_LIMIT ==
  <<"&","#">> \o Repeat("0", int_max_str_digits - 1) \o <<"6","5",";">>

\* Decimal character references with as many digits as int converts
REFERENCE_AT_LIMIT ==
  <<"&","#">> \o Repeat("1", int_max_str_digits) \o <<";">>

\* A reference over the limit with its '&#' percent-encoded, and the
\* percent-encoded text of one
ENCODED_OVER_LIMIT ==
  <<"%","2","6","%","2","3">> \o Repeat("7", int_max_str_digits + 1)

TWICE_ENCODED_OVER_LIMIT ==
  <<"%","2","5","2","6","#">> \o Repeat("7", int_max_str_digits + 1)

ZEROS_AT_LIMIT ==
  <<"&","#">> \o Repeat("0", int_max_str_digits - 2) \o <<"6","5">>

\* Hexadecimal character references with more digits than that
HEX_ZEROS_OVER_LIMIT ==
  <<"&","#","x">> \o Repeat("0", int_max_str_digits + 1) \o <<"4","1",";">>

HEX_OVER_LIMIT ==
  <<"&","#","X">> \o Repeat("f", int_max_str_digits + 1)

LongReferences ==
  {REFERENCE_OVER_LIMIT, ZEROS_OVER_LIMIT, REFERENCE_AT_LIMIT,
   ENCODED_OVER_LIMIT, TWICE_ENCODED_OVER_LIMIT, ZEROS_AT_LIMIT,
   HEX_ZEROS_OVER_LIMIT, HEX_OVER_LIMIT}

EncodedStrings ==
  {URL_WEBRING, URL_ASSTR} \cup LongReferences \cup
  {flatten(pieces) :
     pieces \in UNION {[1..k -> EncodedPieces] : k \in 0..MaxPieces}}

\* url_html_decoder(call.args)
UrlHtmlDecoder ==
  /\ call.op = "url_html_decoder"
  /\ ret = Pending
  /\ ret' = url_html_decoder(call.args)
  /\ UNCHANGED <<feat, call>>

\* Most words in a text passed to word_splitter
MaxWords == 2

\* The words and the separators of the texts
SplitWords ==
  {<<>>, <<"s","o","m","e">>, <<"w","o","r","d">>, <<"W","o","r","d">>,
   <<"a">>, <<"b">>}

WordSeparators == {<<"-">>, <<"_">>, <<"-","-">>}

\* The texts of the tests of word_splitter
TestTexts ==
  {<<>>, <<"a","b","c">>, <<"s","o","m","e","-","w","o","r","d">>,
   <<"s","o","m","e","w","o","r","d">>, <<"w","e","i","r","d">>,
   <<"m","e","m","b","e","r","s">>, <<"t","r","i","p","o","d">>,
   <<"m","u","l","t","i","w","o","r","d","v","a","l","u","e">>}

SplitTexts ==
  TestTexts \cup
  {Join(words, sep) :
     words \in UNION {[1..k -> SplitWords] : k \in 1..MaxWords},
     sep \in WordSeparators}

\* word_splitter(call.args)
WordSplitter ==
  /\ call.op = "word_splitter"
  /\ ret = Pending
  /\ ret' = Returned(word_splitter(call.args))
  /\ UNCHANGED <<feat, call>>

\* The tokens passed to expand_token: keys of the acronym table and other
\* tokens, in lower, upper and mixed case
ExpandTokens ==
  {<<"c","s">>, <<"C","S">>, <<"C","s">>, <<"n","o","s">>, <<"n","l","p">>,
   <<"w","w","w">>, <<"m","s","u">>, <<"t","e","s","t">>,
   <<"T","e","s","t">>, <<"X","Y">>, <<"o","r","g">>, <<"U+212A">>,
   <<"U+0130","s">>, <<>>}

\* expand_token(Acrony_dict, call.args)
ExpandToken ==
  /\ call.op = "expand_token"
  /\ ret = Pending
  /\ ret' = Returned(expand_token(AcronymsFile, call.args))
  /\ UNCHANGED <<feat, call>>

\* The parts from which the urls passed to url_tokenizer and to the
\* feature extractor are assembled: domains with an empty label or a label
\* of hyphens, domains of digits, endings of the untrustworthy-TLD list
\* and others
FeatureProtocols == {<<"h","t","t","p",":","/","/">>, <<"h","t","t","p","s",
                                                        ":","/","/">>, <<>>}

FeatureDomains ==
  UrlDomains \cup
  {<<".",".","c","o","m">>, <<"a",".",".","c","o","m">>,
   <<"w","w","w",".","-","-","-","-","-",".","c","o","m">>,
   <<"w","w","w",".","-",".","c","o","m">>,
   <<"t","e","s","t",".","x","y","z">>,
   <<"t","e","s","t",".","i","n","k">>, <<"t","e","s","t",".","l","k">>,
   <<"t","e","s","t",".","i","n","k","l","k">>,
   <<"t","e","s","t",".","l","i","n","k">>,
   <<"1","2",".","3","4",".","2","3",".","6","6">>,
   <<"1",".","2",".","3",".","4",".","t","e","s","t",".","c","o","m">>,
   <<"1",".","2",".","3",".","c","o","m">>,
   <<"t","e","%","7","3","t",".","c","o","m">>,
   <<"t","e","s","t",".","c","o","m","%","C","3","%","A","9">>}

FeaturePaths ==
  {<<>>, <<"/","p","a","t","h","/","p","a","g","e",".","h","t","m","l">>,
   <<"/","@","t","h","e">>,
   <<"/","a","@","t","e","s","t","/","p","a","t","h">>,
   <<"/","%","C","3","%","8","9">>,
   <<"/","%","E","2","%","8","4","%","A","A">>}

FeatureQueries == {<<>>, <<"?","a","r","g","=","v","a","l",";","a","@","b">>, <<
                                                                                "?",
                                                                                "B",
                                                                                "E",
                                                                                "T",
                                                                                "\\",
                                                                                "p",
                                                                                "a",
                                                                                "g",
                                                                                "e",
                                                                                ".",
                                                                                "h",
                                                                                "t",
                                                                                "m",
                                                                                "l">>}

\* Urls with a numeric character reference as their path
LongUrls ==
  {<<"h","t","t","p",":","/","/","t","e","s","t",".","c","o","m","/">>
     \o reference :
     reference \in {REFERENCE_OVER_LIMIT, REFERENCE_AT_LIMIT,
                    ZEROS_AT_LIMIT}}

FeatureUrls ==
  LongUrls \cup
  {p \o d \o pa \o q :
     p \in FeatureProtocols, d \in FeatureDomains, pa \in FeaturePaths,
     q \in FeatureQueries}

\* url_tokenizer(call.args)
UrlTokenizer ==
  /\ call.op = "url_tokenizer"
  /\ ret = Pending
  /\ ret' = url_tokenizer(call.args)
  /\ UNCHANGED <<feat, call>>

\* __create_hand_picked_features__(call.args, url_tokenizer(call.args)):
\* the method called with the data of url_tokenizer(url), as
\* __hand_picked_feat_len__ calls it for its sample url.  __featurize__
\* does not get this far: its own call of url_tokenizer passes a keyword
\* the function does not take (see featurize_exception).
CreateHandPickedFeatures ==
  /\ call.op = "create_hand_picked_features"
  /\ ret = Pending
  /\ ret' = With(url_tokenizer(call.args), LAMBDA url_data :
              IF url_data.raised # "" THEN url_data
              ELSE create_hand_picked_features(call.args, url_data.value))
  /\ UNCHANGED <<feat, call>>

\* The calls of the functions, one per initial state
CallsOf(op, inputs) == {[op |-> op, args |-> input] : input \in inputs}

TokenizerInit ==
  /\ feat = NoFeaturizer
  /\ ret = Pending
  /\ \/ call \in CallsOf("url_raw_splitter", RawUrls)
     \/ call \in CallsOf("url_domains_handler", DomainStrings)
     \/ call \in CallsOf("url_path_handler", PathStrings)
     \/ call \in CallsOf("url_args_handler", ArgStrings)
     \/ call \in CallsOf("expand_url_tokens", UrlTuples)
     \/ call \in CallsOf("url_html_decoder", EncodedStrings)
     \/ call \in CallsOf("word_splitter", SplitTexts)
     \/ call \in CallsOf("expand_token", ExpandTokens)
     \/ call \in CallsOf("url_tokenizer", FeatureUrls)
     \/ call \in CallsOf("create_hand_picked_features", FeatureUrls)

TokenizerNext ==
  \/ UrlRawSplitter
  \/ UrlDomainsHandler
  \/ UrlPathHandler
  \/ UrlArgsHandler
  \/ ExpandUrlTokens
  \/ UrlHtmlDecoder
  \/ WordSplitter
  \/ ExpandToken
  \/ UrlTokenizer
  \/ CreateHandPickedFeatures

TokenizerSpec == TokenizerInit /\ [][TokenizerNext]_vars

\* ------------------------------------------------------------------------
\* Properties
\* ------------------------------------------------------------------------

\* A matrix has the given numbers of rows and columns
HasShape(mat, rows, cols) ==
  /\ Len(mat) = rows
  /\ \A i \in 1..Len(mat) : Len(mat[i]) = cols

AllZero(vec) == \A i \in 1..Len(vec) : vec[i] = 0

AllZeroMatrix(mat) == \A i \in 1..Len(mat) : AllZero(mat[i])

\* C1: in every state of a constructed featurizer, whatever the capacities
\* given to __init__ and whatever set_hyperparams calls were made, N is
\* the sum of the four capacities plus one.
C1_NIsSumOfCapacities ==
  feat.constructed =>
    feat.N = feat.sub_domain_max_len + feat.main_domain_max_len + 1
               + feat.path_max_len + feat.arg_max_len

\* A set_hyperparams call that provided the first capacity and not the
\* second has returned, and the first capacity now differs from the second.
C1_Witness ==
  /\ call.op = "set_hyperparams"
  /\ Truthy(call.args[1])
  /\ call.args[2] = None
  /\ feat.sub_domain_max_len = call.args[1][1]
  /\ feat.sub_domain_max_len # feat.main_domain_max_len
  /\ feat.N = feat.sub_domain_max_len + feat.main_domain_max_len + 1
                + feat.path_max_len + feat.arg_max_len

\* C2: every featurize call, for one url or for a list, on accepted and on
\* rejected urls and in either layout, returns matrices of exactly N rows
\* and D columns, for the N current at the time of the call.
C2_MatrixShape ==
  /\ call.op = "featurize" =>
       HasShape(ret.value[2], feat.N, feat.embedding_dim)
  /\ call.op = "featurize_list" =>
       \A i \in 1..Len(ret.value) :
         HasShape(ret.value[i][2], feat.N, feat.embedding_dim)

\* featurize has returned for a url with more tokens than N, in sequential
\* layout, and the matrix has N rows.
C2_Witness ==
  /\ call.op = "featurize"
  /\ call.args = URL_LONG
  /\ feat.is_sequential
  /\ feat.N < Len(flatten_url_data(url_tokenizer(URL_LONG).value))
  /\ Len(ret.value[2]) = feat.N
  /\ feat.N > 0

\* C3: featurize of a string the structural splitter rejects does not
\* raise; it returns an all-zero feature vector of length
\* hand_picked_feat_len and an all-zero matrix of shape (N, D).
C3_PlaceholderOnRejected ==
  (call.op = "featurize" /\ ~url_matches(url_html_decoder(call.args).value)) =>
    /\ ret.raised = ""
    /\ Len(ret.value[1]) = feat.hand_picked_feat_len
    /\ AllZero(ret.value[1])
    /\ HasShape(ret.value[2], feat.N, feat.embedding_dim)
    /\ AllZeroMatrix(ret.value[2])

\* featurize has returned for the url without a protocol.
C3_Witness ==
  /\ call.op = "featurize"
  /\ call.args = URL_NO_PROTOCOL
  /\ ~url_matches(url_html_decoder(call.args).value)
  /\ ret.raised = ""
  /\ Len(ret.value[1]) = 20

\* C4: featurize of a list returns a list of the same length whose i-th
\* element is the result of featurize on the i-th url alone; a url that
\* fails keeps its position and changes no other result.
C4_ListMatchesSingleCalls ==
  call.op = "featurize_list" =>
    /\ Len(ret.value) = Len(call.args)
    /\ \A i \in 1..Len(call.args) :
         ret.value[i] = featurize_one(feat, call.args[i])

\* featurize has returned for a list of two urls, the first of them
\* rejected by the splitter.
C4_Witness ==
  /\ call.op = "featurize_list"
  /\ Len(call.args) = 2
  /\ call.args[1] = URL_NO_PROTOCOL
  /\ call.args[2] = URL_TEST
  /\ Len(ret.value) = 2

\* C5: for every url the structural splitter accepts, featurize returns
\* the vector of the hand-picked extractor and the matrix of the builder,
\* both computed from url_tokenizer's UrlData, and not the zero
\* placeholder; featurize('http://test.com') has word count 3 and domain
\* length 8.
C5_AcceptedUrlIsFeaturized ==
  (call.op = "featurize" /\ url_matches(url_html_decoder(call.args).value)) =>
    /\ ret.value[1] =
         create_hand_picked_features(call.args,
                                     url_tokenizer(call.args).value).value
    /\ ret.value[2] =
         create_word_matrix(feat, url_tokenizer(call.args).value)
    /\ call.args = URL_TEST =>
         (ret.value[1][13] = 3 /\ ret.value[1][14] = 8)

\* The zones of a UrlData and the flattened arguments: for every pair the
\* parameter tokens, then the value tokens
SubDomainTokens(url_data) == url_data[2][1]

MainDomainTokens(url_data) == url_data[2][2]

TldTokens(url_data) == <<url_data[2][3]>>

PathTokens(url_data) == url_data[3]

RECURSIVE ArgTokens(_)
ArgTokens(args) ==
  IF args = <<>> THEN <<>>
  ELSE Head(args)[1] \o Head(args)[2] \o ArgTokens(Tail(args))

AllTokens(url_data) ==
  SubDomainTokens(url_data) \o MainDomainTokens(url_data)
    \o TldTokens(url_data) \o PathTokens(url_data)
    \o ArgTokens(url_data[4])

\* The token each row of a block of cap rows holds: <<t>> for the token t,
\* <<>> for a padding row
Slots(tokens, cap) ==
  [i \in 1..cap |-> IF i <= Len(tokens) THEN <<tokens[i]>> ELSE <<>>]

RowSlots(self, url_data) ==
  IF self.is_sequential THEN Slots(AllTokens(url_data), self.N)
  ELSE Slots(SubDomainTokens(url_data), self.sub_domain_max_len)
         \o Slots(MainDomainTokens(url_data), self.main_domain_max_len)
         \o Slots(TldTokens(url_data), 1)
         \o Slots(PathTokens(url_data), self.path_max_len)
         \o Slots(ArgTokens(url_data[4]), self.arg_max_len)

\* C6: a token placed in a row of the matrix contributes exactly
\* embeddings_index[embed_prefix + t] when that key is in the index and
\* exactly avg_vec when it is not.
C6_RowIsLookupOrFallback ==
  call.op = "__create_word_matrix__" =>
    LET slots == RowSlots(feat, call.args)
    IN  \A i \in 1..Len(slots) :
          slots[i] # <<>> =>
            LET key == feat.embed_prefix \o slots[i][1]
            IN  /\ i <= Len(ret.value)
                /\ ret.value[i] = IF index_contains(feat, key)
                                    THEN index_get(feat, key)
                                    ELSE feat.avg_vec

\* The builder has run with the prefixed Conceptnet index in positional
\* layout on http://unk.test.com?arg=val: the row of 'unk' (a miss) is
\* avg_vec and the row of 'com' is the vector stored under /c/en/com.
C6_Witness ==
  /\ call.op = "__create_word_matrix__"
  /\ call.args = url_tokenizer(URL_UNK).value
  /\ feat.embed_prefix = EMBED_PREFIX_CONCEPTNET
  /\ ~feat.is_sequential
  /\ ~HasKey(feat.embeddings_index, feat.embed_prefix \o <<"u", "n", "k">>)
  /\ ret.value[1] = feat.avg_vec
  /\ ret.value[feat.sub_domain_max_len + feat.main_domain_max_len + 1]
       = <<0, 5, 1>>

\* Row i of a block: the embedding of the i-th token, else zeros
BlockRow(self, tokens, i) ==
  IF i <= Len(tokens) THEN get_embed(self, tokens[i])
  ELSE zeros(self.embedding_dim)

\* C7: in positional layout the matrix is five blocks at fixed offsets:
\* rows [0,S) sub-domain, [S,S+M) main domain, row S+M the TLD,
\* [S+M+1,S+M+1+P) path, [S+M+1+P,N) the flattened arguments.  Row i of a
\* block holds the embedding of the zone's i-th token while i is below
\* both the token count and the capacity, and zeros otherwise; surplus
\* tokens are dropped and reach no other block.
C7_PositionalBlocks ==
  (call.op = "__create_word_matrix__" /\ ~feat.is_sequential) =>
    LET S   == feat.sub_domain_max_len
        M   == feat.main_domain_max_len
        P   == feat.path_max_len
        A   == feat.arg_max_len
        ud  == call.args
        mat == ret.value
    IN  /\ Len(mat) = feat.N
        /\ S + M + 1 + P + A = feat.N
        /\ \A i \in 1..S :
             mat[i] = BlockRow(feat, SubDomainTokens(ud), i)
        /\ \A i \in 1..M :
             mat[S + i] = BlockRow(feat, MainDomainTokens(ud), i)
        /\ mat[S + M + 1] = get_embed(feat, ud[2][3])
        /\ \A i \in 1..P :
             mat[S + M + 1 + i] = BlockRow(feat, PathTokens(ud), i)
        /\ \A i \in 1..A :
             mat[S + M + 1 + P + i] = BlockRow(feat, ArgTokens(ud[4]), i)

\* The positional builder has run on http://unk.test.com?arg=val with room
\* for one argument token and more than one main-domain token: the second
\* main-domain row and the path rows are zero, the single argument row
\* holds 'arg', and 'val' is dropped.
C7_Witness ==
  /\ call.op = "__create_word_matrix__"
  /\ ~feat.is_sequential
  /\ call.args = url_tokenizer(URL_UNK).value
  /\ feat.arg_max_len = 1
  /\ feat.main_domain_max_len > 1
  /\ Len(ArgTokens(call.args[4])) = 2
  /\ AllZero(ret.value[feat.sub_domain_max_len + 2])
  /\ ret.value[feat.N] = get_embed(feat, <<"a", "r", "g">>)
  /\ ~AllZero(ret.value[feat.N])

\* C8: in sequential layout the tokens of sub-domain, main domain, TLD,
\* path and flattened arguments form one sequence T; row i is the
\* embedding of T[i] for i up to min(len(T), N) and zeros from there to N.
\* Truncation applies once to T, not to each zone.
C8_SequentialRows ==
  (call.op = "__create_word_matrix__" /\ feat.is_sequential) =>
    LET T   == AllTokens(call.args)
        mat == ret.value
    IN  /\ Len(mat) = feat.N
        /\ \A i \in 1..feat.N : mat[i] = BlockRow(feat, T, i)

\* The sequential builder has run on a url with two sub-domain tokens and
\* more tokens than N while the sub-domain capacity is one: the second
\* sub-domain token is kept in row 2 and the last row holds a token.
C8_Witness ==
  /\ call.op = "__create_word_matrix__"
  /\ feat.is_sequential
  /\ call.args = url_tokenizer(URL_LONG).value
  /\ feat.sub_domain_max_len = 1
  /\ Len(SubDomainTokens(call.args)) = 2
  /\ Len(AllTokens(call.args)) > feat.N
  /\ ret.value[2] = get_embed(feat, SubDomainTokens(call.args)[2])
  /\ ~AllZero(ret.value[feat.N])

\* C9: set_hyperparams changes only capacities for which an argument is
\* provided and recomputes N; every capacity not provided, the embedding
\* index, the fallback vector, the embedding dimension, the prefix, the
\* expand-tokens flag, the layout and hand_picked_feat_len stay as they
\* were.
C9_SetHyperparamsFrame ==
  [][call'.op = "set_hyperparams" =>
       /\ call'.args[1] = None =>
            feat'.sub_domain_max_len = feat.sub_domain_max_len
       /\ call'.args[2] = None =>
            feat'.main_domain_max_len = feat.main_domain_max_len
       /\ call'.args[3] = None =>
            feat'.path_max_len = feat.path_max_len
       /\ call'.args[4] = None =>
            feat'.arg_max_len = feat.arg_max_len
       /\ feat'.N = feat'.sub_domain_max_len + feat'.main_domain_max_len
                      + 1 + feat'.path_max_len + feat'.arg_max_len
       /\ feat'.embeddings_index = feat.embeddings_index
       /\ feat'.avg_vec = feat.avg_vec
       /\ feat'.embedding_dim = feat.embedding_dim
       /\ feat'.embed_prefix = feat.embed_prefix
       /\ feat'.expand_tokens = feat.expand_tokens
       /\ feat'.is_sequential = feat.is_sequential
       /\ feat'.is_fasttext = feat.is_fasttext
       /\ feat'.hand_picked_feat_len = feat.hand_picked_feat_len
       /\ feat'.constructed = feat.constructed]_vars

\* set_hyperparams has returned from a call that provided only the
\* argument capacity, which now holds the value given and differs from the
\* path capacity that was not provided.
C9_Witness ==
  /\ call.op = "set_hyperparams"
  /\ call.args[1] = None
  /\ call.args[2] = None
  /\ call.args[3] = None
  /\ Truthy(call.args[4])
  /\ feat.arg_max_len = call.args[4][1]
  /\ feat.arg_max_len # feat.path_max_len
  /\ feat.embeddings_index # <<>>

\* C10: constructing a UrlFeaturizer with an embedding that is neither a
\* FastText keyed-vectors model, nor a named pretrained embedding, nor
\* 'sample' fails with an error that reaches the caller, and no
\* featurizer is produced.
C10_InvalidEmbeddingFails ==
  (/\ call.op = "__init__"
   /\ call.args[1] # FastTextModel
   /\ call.args[1] \notin {GLOVE, CONCEPTNET, WORD2VEC, FASTTEXT}
   /\ call.args[1] # SAMPLE) =>
    /\ ret.raised = "ValueError"
    /\ ~feat.constructed

\* __init__ was called with 'undefined-embed' and raised.
C10_Witness ==
  /\ call.op = "__init__"
  /\ call.args[1] = "undefined-embed"
  /\ ret.raised = "ValueError"
  /\ feat = NoFeaturizer


\* The function op was called on its own and the call is over
Called(op) == call.op = op /\ ret # Pending

\* s ends with suffix
EndsWith(s, suffix) ==
  /\ Len(s) >= Len(suffix)
  /\ SubSeq(s, Len(s) - Len(suffix) + 1, Len(s)) = suffix

\* C11: url_raw_splitter applied to a string that does not start with
\* 'http://' or 'https://' (in any letter case) followed by a domain shape
\* fails with an error whose message carries the offending string, and
\* returns no tuple.
C11_RawSplitterRejects ==
  (/\ Called("url_raw_splitter")
   /\ \/ match_protocol(lower(call.args)) = <<>>
      \/ domain_candidates(lower(call.args),
                           Len(match_protocol(lower(call.args))) + 4) = {})
    =>
    /\ ret.raised = "AssertionError"
    /\ Len(ret.value) > Len(call.args)
    /\ EndsWith(ret.value, call.args)

\* url_raw_splitter was called with 'www.test.com', which has no protocol,
\* and raised with a message that ends with that string.
C11_Witness ==
  /\ Called("url_raw_splitter")
  /\ call.args = URL_NO_PROTOCOL
  /\ ret.raised = "AssertionError"
  /\ ret.value = url_raw_splitter_error(URL_NO_PROTOCOL)


\* C12: url_domains_handler applied to a string of k >= 2 dot-separated
\* labels returns the last label unaltered as domain_ending, the word-split
\* of label k-1 as main_domain, and as sub_domains the word-splits of the
\* labels 1..k-2 concatenated from left to right (empty when k = 2).
\* The labels are those of LabelSeqs whose join with '.' is the argument;
\* k goes up to MaxLabels, so that sub_domains is made of up to
\* MaxLabels - 2 labels, and 'www.members.tripod.net' of the docstring
\* gives (['www', 'members'], ['tripod'], 'net').
C12_DomainsHandlerZones ==
  Called("url_domains_handler") =>
    With(SplitOn(call.args, "."), LAMBDA labels :
      /\ labels \in LabelSeqs
      /\ call.args = Join(labels, <<".">>)
      /\ Len(labels) >= 2 =>
           LET k == Len(labels)
           IN  /\ ret.raised = ""
               /\ ret.value[3] = labels[k]
               /\ ret.value[2] = word_splitter(labels[k - 1])
               /\ ret.value[1] =
                    flatten([i \in 1..(k - 2) |->
                               word_splitter(labels[i])])
      /\ call.args = <<"w","w","w",".","m","e","m","b","e","r","s",".",
                       "t","r","i","p","o","d",".","n","e","t">> =>
           ret.value = << <<<<"w","w","w">>,
                            <<"m","e","m","b","e","r","s">>>>,
                         <<<<"t","r","i","p","o","d">>>>,
                         <<"n","e","t">> >>)

\* url_domains_handler returned for 'part8.geocities.www.tripod': the
\* sub-domains are the words of the first label followed by the words of
\* the second one, the main domain is the third label and the ending the
\* fourth.
C12_Witness ==
  /\ Called("url_domains_handler")
  /\ call.args = <<"p","a","r","t","8",".","g","e","o","c","i","t","i","e",
                   "s",".","w","w","w",".","t","r","i","p","o","d">>
  /\ ret = Returned(<< <<<<"p","a","r","t">>, <<"8">>, <<"g","e","o">>,
                         <<"c","i","t","i","e","s">>>>,
                       <<<<"w","w","w">>>>,
                       <<"t","r","i","p","o","d">> >>)


\* C13: url_path_handler returns the word-splits of the non-empty
\* '/'-separated segments of the path string concatenated in order,
\* followed by one extra '@' token exactly when the path string contains
\* '@' anywhere; for the path strings '' and '/' the result is empty.
C13_PathHandlerTokens ==
  Called("url_path_handler") =>
    /\ ret.raised = ""
    /\ call.args \in {<<>>, <<"/">>} => ret.value = <<>>
    /\ \A segs \in SegmentSeqs :
         call.args = Join(segs, <<"/">>) =>
           ret.value =
             flatten([i \in 1..Len(segs) |-> word_splitter(segs[i])])
             \o (IF \E i \in 1..Len(segs) : \E j \in 1..Len(segs[i]) :
                      segs[i][j] = "@"
                   THEN << <<"@">> >> ELSE <<>>)

\* url_path_handler returned for '/path/a@test': the words of both
\* segments and the '@' token at the end.
C13_Witness ==
  /\ Called("url_path_handler")
  /\ call.args = <<"/","p","a","t","h","/","a","@","t","e","s","t">>
  /\ ret = Returned(<<<<"p","a","t","h">>, <<"a">>, <<"t","e","s","t">>, <<"@">>>>)


\* C14: url_args_handler returns the empty sequence for the empty string;
\* otherwise it returns exactly one (param_tokens, value_tokens) pair per
\* chunk delimited by '&amp;' (one delimiter, not split again at its '&'
\* or ';'), ';', '&' or backslash, in the order of the chunks, and the
\* value_tokens of a chunk without '=' is the empty sequence.
C14_ArgsHandlerPairs ==
  Called("url_args_handler") =>
    /\ ret.raised = ""
    /\ call.args = <<>> => ret.value = <<>>
    /\ \A input \in ArgInputs :
         (call.args = input[1] /\ call.args # <<>>) =>
           LET chunks == input[2]
           IN  /\ Len(ret.value) = Len(chunks)
               /\ \A i \in 1..Len(chunks) :
                    /\ ret.value[i][1] = word_splitter(chunks[i][1])
                    /\ Len(chunks[i]) = 1 => ret.value[i][2] = <<>>
                    /\ Len(chunks[i]) > 1 =>
                         ret.value[i][2] = word_splitter(chunks[i][2])

\* url_args_handler returned for 'sid=4&amp;list': two pairs in order, the
\* second with no value tokens.
C14_Witness ==
  /\ Called("url_args_handler")
  /\ call.args = <<"s","i","d","=","4","&","a","m","p",";","l","i","s","t">>
  /\ ret = Returned(<< << <<<<"s","i","d">>>>, <<<<"4">>>> >>, << <<<<"l","i","s","t">>>>, <<>> >> >>)


\* The words a token of a zone stands for after expansion: the words of
\* its phrase when the token is a key of the acronym table, else the token
ExpansionWords(token) ==
  IF HasKey(AcronymsFile, lower(token))
    THEN SplitOn(Lookup(AcronymsFile, lower(token)), " ")
    ELSE <<token>>

\* The number of tokens that the tokens before position i of a zone
\* stand for
RECURSIVE ExpandedOffset(_, _)
ExpandedOffset(zone, i) ==
  IF i = 1 THEN 0
  ELSE ExpandedOffset(zone, i - 1) + Len(ExpansionWords(zone[i - 1]))

\* zone_out holds, for each token of zone_in in order, the words it stands
\* for (a token that is no key compared without its letter case), and
\* nothing else
ZoneExpanded(zone_in, zone_out) ==
  /\ Len(zone_out) = ExpandedOffset(zone_in, Len(zone_in) + 1)
  /\ \A i \in 1..Len(zone_in) :
       LET words == ExpansionWords(zone_in[i])
           shift == ExpandedOffset(zone_in, i)
       IN  \A j \in 1..Len(words) :
             lower(zone_out[shift + j]) = lower(words[j])

\* C15: when expand_url_tokens returns, a token of the sub-domain,
\* main-domain or path zone whose acronym-table entry is a phrase of k
\* words is replaced by the k words in order at its position, the zone
\* grows by k-1 tokens, and every later token of the zone keeps its
\* relative order, shifted by k-1.
C15_ExpansionInPlace ==
  (Called("expand_url_tokens") /\ ret.raised = "") =>
    /\ ZoneExpanded(call.args[2][1], ret.value[2][1])
    /\ ZoneExpanded(call.args[2][2], ret.value[2][2])
    /\ ZoneExpanded(call.args[3], ret.value[3])

\* expand_url_tokens returned for a UrlData with the path ['cs', 'test']:
\* the two words of 'computer science' come first and 'test' has moved
\* from position 2 to position 3.
C15_Witness ==
  /\ Called("expand_url_tokens")
  /\ call.args[3] = <<<<"c","s">>, <<"t","e","s","t">>>>
  /\ call.args[2][1] = <<<<"w","w","w">>>>
  /\ ret.raised = ""
  /\ ret.value[3] = <<<<"c","o","m","p","u","t","e","r">>, <<"s","c","i","e","n","c","e">>, <<"t","e","s","t">>>>
  /\ ret.value[2][1] = <<<<"w","o","r","l","d">>, <<"w","i","d","e">>, <<"w","e","b">>>>



\* C16: url_html_decoder gives what HTML-unescaping gives for the
\* percent-decoding of its input, percent-decoding first: it returns the
\* unescaped text, and where html.unescape raises (ValueError for a
\* decimal character reference of more than 4300 digits, while 4300
\* digits are converted) it raises the same; the two urls of its examples
\* decode to 'http://e.webring.com/hub?sid=&ring=hentff98&id=&' and
\* "http://www.asstr.org/janice and kirk's", and '%26amp;', which is an
\* entity only once it is percent-decoded, decodes to '&'.
C16_DecodeOrder ==
  Called("url_html_decoder") =>
    /\ With(unescape(unquote(call.args)), LAMBDA unescaped :
         /\ ret.raised = unescaped.raised
         /\ ret.value = unescaped.value)
    /\ ret.raised \in {"", "ValueError"}
    /\ call.args \in {REFERENCE_OVER_LIMIT, ZEROS_OVER_LIMIT,
                      ENCODED_OVER_LIMIT} =>
         ret = Raised("ValueError")
    /\ call.args = REFERENCE_AT_LIMIT => ret = Returned(<<OtherChar>>)
    /\ call.args \notin LongReferences => ret.raised = ""
    /\ call.args = URL_WEBRING =>
         ret.value = <<"h","t","t","p",":","/","/","e",".","w","e","b","r",
                       "i","n","g",".","c","o","m","/","h","u","b","?","s",
                       "i","d","=","&","r","i","n","g","=","h","e","n","t",
                       "f","f","9","8","&","i","d","=","&">>
    /\ call.args = URL_ASSTR =>
         ret.value = <<"h","t","t","p",":","/","/","w","w","w",".","a","s",
                       "s","t","r",".","o","r","g","/","j","a","n","i","c",
                       "e"," ","a","n","d"," ","k","i","r","k","'","s">>
    /\ call.args = <<"%","2","6","a","m","p",";">> => ret.value = <<"&">>

\* url_html_decoder returned '&x' for '%26amp;x': the percent-decoded
\* text '&amp;x' was unescaped.
C16_Witness ==
  /\ Called("url_html_decoder")
  /\ call.args = <<"%","2","6","a","m","p",";","x">>
  /\ ret = Returned(<<"&","x">>)


\* The characters of s that belong to cls, in order
RECURSIVE OnlyChars(_, _)
OnlyChars(s, cls) ==
  IF s = <<>> THEN <<>>
  ELSE (IF Head(s) \in cls THEN <<Head(s)>> ELSE <<>>)
         \o OnlyChars(Tail(s), cls)

\* C17, as stated: the concatenation of the tokens word_splitter returns,
\* compared ignoring case, is the input string.
C17_ConcatReproducesInput ==
  Called("word_splitter") =>
    lower(flatten(ret.value)) = lower(call.args)

\* C17, amended: the concatenation of the tokens word_splitter returns is
\* the input itself when the input is shorter than MIN_SPLIT_LEN, and
\* otherwise the input without its characters outside [a-zA-Z0-9']; the
\* case of the characters is kept and no character is added.
C17_ConcatDropsSeparators ==
  Called("word_splitter") =>
    /\ ret.raised = ""
    /\ flatten(ret.value) =
         IF Len(call.args) < MIN_SPLIT_LEN THEN call.args
         ELSE OnlyChars(call.args, WordninjaChars)

\* word_splitter returned ['some', 'word'] for 'some-word': the hyphen is
\* in no token.
C17_Witness ==
  /\ Called("word_splitter")
  /\ call.args = <<"s","o","m","e","-","w","o","r","d">>
  /\ ret = Returned(<<<<"s","o","m","e">>, <<"w","o","r","d">>>>)


\* C18: word_splitter applied to a non-empty text of at most MIN_SPLIT_LEN
\* characters, the threshold included, returns the text unchanged as its
\* only token.
C18_UpToThresholdKept ==
  (Called("word_splitter") /\ Len(call.args) \in 1..MIN_SPLIT_LEN) =>
    ret = Returned(<<call.args>>)


\* The results that the call c, which returned r, gave for url: the result
\* of featurize(url), or the entries of the list featurize(urls) returned
\* at the positions where urls holds url
ResultsFor(c, r, url) ==
  IF c.op = "featurize"
    THEN (IF c.args = url THEN {r.value} ELSE {})
  ELSE IF c.op = "featurize_list"
    THEN {r.value[i] : i \in {j \in 1..Len(c.args) : c.args[j] = url}}
  ELSE {}

\* C19: a featurize call, on one url or on a list, leaves every field of
\* the featurizer as it was (the four capacities, N, the embedding index
\* and the fallback vector among them), and what it returns for a url is
\* what the featurize call before it returned for the same url, and the
\* same at every position of a list that holds that url.
C19_FeaturizeFrame ==
  [][call'.op \in {"featurize", "featurize_list"} =>
       /\ feat' = feat
       /\ \A url \in Urls :
            \A a \in ResultsFor(call, ret, url) \cup ResultsFor(call', ret', url),
               b \in ResultsFor(call', ret', url) : a = b]_vars

\* featurize has returned from a call on a list that holds the same url
\* twice, made on a featurizer whose capacities a set_hyperparams call or
\* the constructor set to MaxCap: both entries are the result for the url.
C19_Witness ==
  /\ call.op = "featurize_list"
  /\ call.args = <<URL_TEST, URL_TEST>>
  /\ feat.N = 4 * MaxCap + 1
  /\ feat.embeddings_index # <<>>
  /\ ret.value[1] = featurize_one(feat, URL_TEST)
  /\ ret.value[2] = ret.value[1]


\* The text the four fields of a url_raw_splitter result stand for in u:
\* protocol, '://', domains, path, a '?' when one follows the path in u,
\* and the arguments
FieldsText(fields, u) ==
  LET head == fields[1] \o <<":","/","/">> \o fields[2] \o fields[3]
      mark == IF Len(head) < Len(u) /\ u[Len(head) + 1] = "?"
                THEN <<"?">> ELSE <<>>
  IN  head \o mark \o fields[4]

\* C20: whenever url_raw_splitter accepts a url u, the four fields it
\* returns, put together with '://' and the '?' that follows the path,
\* are the whole of the lowercased u: no character at the end of u is
\* outside the fields.
C20_WholeStringMatched ==
  (Called("url_raw_splitter") /\ ret.raised = "") =>
    FieldsText(ret.value, lower(call.args)) = lower(call.args)


\* Where the path ends in u for the fields a url_raw_splitter call returned
PathEnd(fields) == Len(fields[1]) + 3 + Len(fields[2]) + Len(fields[3])

\* C21: when a '?' follows the path of an accepted url, the arg_string
\* url_raw_splitter returns is the whole run after the '?' of characters
\* of the argument class with the backslash: it does not stop at a
\* backslash, so the query 'bet\page.html' gives an arg_string of 13
\* characters.
C21_ArgsRunKeepsBackslash ==
  (/\ Called("url_raw_splitter")
   /\ ret.raised = ""
   /\ PathEnd(ret.value) < Len(call.args)
   /\ call.args[PathEnd(ret.value) + 1] = "?")
    =>
    LET rest == SubSeq(lower(call.args), PathEnd(ret.value) + 2,
                       Len(call.args))
    IN  ret.value[4] =
          SubSeq(rest, 1, RunLen(rest, ArgsClass \cup {"\\"}, Len(rest)))


\* The elements of a sequence
Range(q) == {q[i] : i \in 1..Len(q)}

\* C22: for a chunk with two or more '=', the pair url_args_handler
\* returns has the word-split of the text before the first '=' as
\* param_tokens and the word-split of the text between the first and the
\* second '=' as value_tokens, and nothing else: the chunk 'arg=val=page'
\* gives (['arg'], ['val']) and 'page' is in neither side.
C22_SecondEqualsCutsValue ==
  Called("url_args_handler") =>
    \A input \in ArgInputs :
      call.args = input[1] =>
        \A i \in 1..Len(input[2]) :
          Len(input[2][i]) > 2 =>
            /\ ret.value[i] = <<word_splitter(input[2][i][1]),
                                word_splitter(input[2][i][2])>>
            /\ input[2][i] = <<<<"a","r","g">>, <<"v","a","l">>, <<"p","a",
                                                                   "g","e">>>> =>
                 /\ ret.value[i] = << <<<<"a","r","g">>>>, <<<<"v","a","l">>>> >>
                 /\ <<"p","a","g","e">> \notin Range(ret.value[i][1] \o ret.value[i][2])

\* url_args_handler returned for 'sid=4;arg=val=page': the second pair is
\* (['arg'], ['val']).
C22_Witness ==
  /\ Called("url_args_handler")
  /\ call.args = <<"s","i","d","=","4",";","a","r","g","=","v","a","l","=",
                   "p","a","g","e">>
  /\ Len(ret.value) = 2
  /\ ret.value[2] = << <<<<"a","r","g">>>>, <<<<"v","a","l">>>> >>


\* C23: expand_url_tokens applied to a UrlData with a non-empty args
\* sequence returns a UrlData whose args has one (param_tokens,
\* value_tokens) pair per input pair, in order, each side holding the
\* expansion of every token of that side in place.
C23_ArgsPairsExpanded ==
  (Called("expand_url_tokens") /\ Len(call.args[4]) > 0) =>
    /\ ret.raised = ""
    /\ Len(ret.value[4]) = Len(call.args[4])
    /\ \A i \in 1..Len(call.args[4]) :
         /\ ZoneExpanded(call.args[4][i][1], ret.value[4][i][1])
         /\ ZoneExpanded(call.args[4][i][2], ret.value[4][i][2])


\* C24: expand_token returns the phrase of the acronym table for a token
\* whose lowercase form is a key, and the token itself, unchanged in any
\* letter case, for every other token.
C24_MissIsIdentity ==
  Called("expand_token") =>
    ret = Returned(IF HasKey(AcronymsFile, lower(call.args))
                     THEN Lookup(AcronymsFile, lower(call.args))
                     ELSE call.args)


\* C25: when expand_url_tokens returns, the protocol and the domain ending
\* of the result are those of the UrlData it was given, also when they are
\* keys of the acronym table.
C25_ProtocolAndEndingKept ==
  (Called("expand_url_tokens") /\ ret.raised = "") =>
    /\ ret.value[1] = call.args[1]
    /\ ret.value[2][3] = call.args[2][3]

\* expand_url_tokens returned for a UrlData whose protocol 'www' and
\* domain ending 'sl' are keys of the acronym table and whose sub-domain
\* 'www' was expanded: 'www' and 'sl' are still in their fields.
C25_Witness ==
  /\ Called("expand_url_tokens")
  /\ HasKey(AcronymsFile, call.args[1])
  /\ HasKey(AcronymsFile, call.args[2][3])
  /\ call.args[2][1] = <<<<"w","w","w">>>>
  /\ ret.raised = ""
  /\ ret.value[2][1] = <<<<"w","o","r","l","d">>, <<"w","i","d","e">>, <<"w",
                                                                         "e",
                                                                         "b">>>>
  /\ ret.value[1] = <<"w","w","w">>
  /\ ret.value[2][3] = <<"s","l">>


\* The domain_string of an accepted url and its dot-separated labels
DomainString(url) == url_raw_splitter(url_html_decoder(url).value)[2]

DomainLabelsOf(url) == SplitOn(DomainString(url), ".")

\* C26, as stated: for every url that url_raw_splitter accepts, the
\* domain_string has at least two dot-separated labels and the main_domain
\* of the UrlData that url_tokenizer returns has at least one token.
C26_MainDomainNonEmpty ==
  (Called("url_tokenizer") /\ ret.raised = "") =>
    /\ Len(DomainLabelsOf(call.args)) >= 2
    /\ Len(ret.value[2][2]) >= 1

\* C26, amended: for every url that url_raw_splitter accepts, the
\* domain_string has at least two dot-separated labels and the main_domain
\* is the word-split of the label before the last; it has at least one
\* token exactly when that label is not empty and either is shorter than
\* MIN_SPLIT_LEN or holds a character of [a-zA-Z0-9'].
C26_MainDomainOfLabel ==
  (Called("url_tokenizer") /\ ret.raised = "") =>
    LET labels == DomainLabelsOf(call.args)
        label  == labels[Len(labels) - 1]
    IN  /\ Len(labels) >= 2
        /\ ret.value[2][2] = word_splitter(label)
        /\ Len(ret.value[2][2]) >= 1 <=>
             /\ label # <<>>
             /\ \/ Len(label) < MIN_SPLIT_LEN
                \/ \E i \in 1..Len(label) : label[i] \in WordninjaChars

\* url_tokenizer returned for 'http://a..com': the label before the
\* ending is empty and the main_domain has no token.
C26_Witness ==
  /\ Called("url_tokenizer")
  /\ call.args = <<"h","t","t","p",":","/","/","a",".",".","c","o","m">>
  /\ ret.raised = ""
  /\ ret.value[2] = << <<<<"a">>>>, <<>>, <<"c","o","m">> >>


\* The feature vector of a url has been computed
Featurized == Called("create_hand_picked_features") /\ ret.raised = ""

\* The positions of fields in the feature vector
NUM_PATH_WORDS == 6

DOMAIN_END_VERDICT == 7

CONTAINS_AT_SYMBOL == 12

DOMAIN_IS_IP_ADDRESS == 19

\* C27: in the feature vector of a tokenized url the '@'-marker field is 1
\* exactly when the raw path string contains '@', the path-token-count
\* field is the number of path tokens minus the marker field, and it is
\* never negative.
C27_AtMarkerAndPathCount ==
  Featurized =>
    LET path_raw == url_raw_splitter(url_html_decoder(call.args).value)[3]
        path     == url_tokenizer(call.args).value[3]
    IN  /\ ret.value[CONTAINS_AT_SYMBOL] = BoolInt(Contains(path_raw, "@"))
        /\ ret.value[NUM_PATH_WORDS] =
             Len(path) - ret.value[CONTAINS_AT_SYMBOL]
        /\ ret.value[NUM_PATH_WORDS] >= 0

\* The feature vector of 'http://test.com/a@test/path' has been computed:
\* the path tokens are a, test, path and '@', the marker is 1 and the
\* count is 3.
C27_Witness ==
  /\ Featurized
  /\ call.args = <<"h","t","t","p",":","/","/","t","e","s","t",".","c","o",
                   "m","/","a","@","t","e","s","t","/","p","a","t","h">>
  /\ url_tokenizer(call.args).value[3] = <<<<"a">>, <<"t","e","s","t">>, <<"p","a",
                                                                     "t",
                                                                     "h">>, <<
                                                                              "@">>>>
  /\ ret.value[CONTAINS_AT_SYMBOL] = 1
  /\ ret.value[NUM_PATH_WORDS] = 3


\* The domain ending of an accepted url
DomainEnding(url) == url_tokenizer(url).value[2][3]

\* The string literals written in the untrustworthy-TLD list of the
\* source: 'ink' and 'lk' are two of them
WrittenTlds == (UNTRUSTWORTHY_TLDS \ {<<"i","n","k","l","k">>}) \cup {<<"i",
                                                                        "n",
                                                                        "k">>, <<
                                                                                 "l",
                                                                                 "k">>}

\* C28: the TLD-verdict field of the feature vector is 1 for every TLD
\* written in the untrustworthy-TLD list of the source, 'ink', 'lk' and
\* 'xyz' among them, and 0 for every other TLD.
C28_WrittenTldsFlagged ==
  Featurized =>
    ret.value[DOMAIN_END_VERDICT] =
      BoolInt(DomainEnding(call.args) \in WrittenTlds)

\* C29: the domain-is-IP-address field of the feature vector is 1 exactly
\* when the whole domain string is four dot-separated non-empty runs of
\* decimal digits, and 0 for every other domain string, also for one that
\* begins with four such runs.
C29_WholeDomainIsIp ==
  Featurized =>
    LET labels == DomainLabelsOf(call.args)
    IN  ret.value[DOMAIN_IS_IP_ADDRESS] =
          BoolInt(/\ Len(labels) = 4
                  /\ \A i \in 1..4 :
                       /\ labels[i] # <<>>
                       /\ \A j \in 1..Len(labels[i]) :
                            labels[i][j] \in DigitChars)

====
